---- MODULE Spec2Model ----
(***************************************************************************)
(* Inventra: the LangGraph workflow of src/agents/graph.py (start, data,   *)
(* weather, decision, end), its three stage functions, the tools they call *)
(* and the run_query entry point.  Text is kept as text: every keyword     *)
(* test of the code is the substring search the code performs.             *)
(***************************************************************************)
EXTENDS Integers, Sequences, FiniteSets, TLC

(***************************************************************************)
(* Python text primitives                                                  *)
(***************************************************************************)

UPPER == "ABCDEFGHIJKLMNOPQRSTUVWXYZ"
LOWER == "abcdefghijklmnopqrstuvwxyz"
DIGITS == "0123456789"

\* c occurs in the alphabet string abc (c is a one-character string)
CharIn(c, abc) == \E i \in 1..Len(abc) : SubSeq(abc, i, i) = c

IndexIn(c, abc) == CHOOSE i \in 1..Len(abc) : SubSeq(abc, i, i) = c

UPPER_CHARS == {SubSeq(UPPER, i, i) : i \in 1..Len(UPPER)}
LOWER_CHARS == {SubSeq(LOWER, i, i) : i \in 1..Len(LOWER)}

\* the case mappings of the ASCII letters
ToLower == [c \in UPPER_CHARS |-> SubSeq(LOWER, IndexIn(c, UPPER), IndexIn(c, UPPER))]
ToUpper == [c \in LOWER_CHARS |-> SubSeq(UPPER, IndexIn(c, LOWER), IndexIn(c, LOWER))]

LowerChar(c) == IF c \in UPPER_CHARS THEN ToLower[c] ELSE c

UpperChar(c) == IF c \in LOWER_CHARS THEN ToUpper[c] ELSE c

\* str.lower()
RECURSIVE Lower(_)
Lower(s) ==
    IF Len(s) = 0 THEN s
    ELSE IF Len(s) = 1 THEN LowerChar(s)
    ELSE LET h == Len(s) \div 2
         IN Lower(SubSeq(s, 1, h)) \o Lower(SubSeq(s, h + 1, Len(s)))

\* str.upper()
RECURSIVE Upper(_)
Upper(s) ==
    IF Len(s) = 0 THEN s
    ELSE IF Len(s) = 1 THEN UpperChar(s)
    ELSE LET h == Len(s) \div 2
         IN Upper(SubSeq(s, 1, h)) \o Upper(SubSeq(s, h + 1, Len(s)))

IsLetter(c) == CharIn(c, UPPER) \/ CharIn(c, LOWER)

\* str.title(): a letter that follows a non-letter is upper-cased, every
\* other letter is lower-cased
RECURSIVE TitleFrom(_, _, _)
TitleFrom(s, i, inWord) ==
    IF i > Len(s) THEN ""
    ELSE LET c == SubSeq(s, i, i)
         IN (IF inWord THEN LowerChar(c) ELSE UpperChar(c)) \o TitleFrom(s, i + 1, IsLetter(c))

Title(s) == TitleFrom(s, 1, FALSE)

\* Python's `k in t` for strings
Contains(t, k) == \E i \in 1..(Len(t) - Len(k) + 1) : SubSeq(t, i, i + Len(k) - 1) = k

\* any(kw in t for kw in kws), kws a sequence of keywords
ContainsAny(t, kws) == \E j \in 1..Len(kws) : Contains(t, kws[j])

\* str.startswith
StartsWith(t, k) == Len(t) >= Len(k) /\ SubSeq(t, 1, Len(k)) = k

IsSpace(c) == c \in {" ", "\n", "\t", "\r"}

\* str.strip()
RECURSIVE LStrip(_)
LStrip(s) == IF Len(s) > 0 /\ IsSpace(SubSeq(s, 1, 1)) THEN LStrip(SubSeq(s, 2, Len(s))) ELSE s

RECURSIVE RStrip(_)
RStrip(s) == IF Len(s) > 0 /\ IsSpace(SubSeq(s, Len(s), Len(s))) THEN RStrip(SubSeq(s, 1, Len(s) - 1)) ELSE s

Strip(s) == RStrip(LStrip(s))

\* "sep".join(parts)
RECURSIVE Join(_, _)
Join(sep, parts) ==
    IF Len(parts) = 0 THEN ""
    ELSE IF Len(parts) = 1 THEN parts[1]
    ELSE parts[1] \o sep \o Join(sep, Tail(parts))

\* "c" * n
RECURSIVE Repeat(_, _)
Repeat(c, n) == IF n <= 0 THEN "" ELSE c \o Repeat(c, n - 1)

\* s[:n]
Prefix(s, n) == SubSeq(s, 1, IF Len(s) < n THEN Len(s) ELSE n)

Max(a, b) == IF a >= b THEN a ELSE b
Min(a, b) == IF a <= b THEN a ELSE b

\* dict.get(k, default) on a dict modelled as a function on its keys
Get(d, k, default) == IF k \in DOMAIN d THEN d[k] ELSE default

EmptyDict == [k \in {} |-> ""]

\* Python's None, where a field holds either None or text
None == "<None>"


\* an operation's outcome: a value, or a raised exception with its str(e)
Ok(v) == [ok |-> TRUE, val |-> v]
Raise(msg) == [ok |-> FALSE, err |-> msg]

\* str(int)
Str(n) == IF n < 0 THEN "-" \o ToString(0 - n) ELSE ToString(n)

\* f"{x:.1f}" of the non-negative number t/10
Fmt1(t) == ToString(t \div 10) \o "." \o ToString(t % 10)

\* f"{x:.2f}" of the non-negative number h/100
Fmt2(h) == ToString(h \div 100) \o "." \o ToString((h % 100) \div 10) \o ToString(h % 10)

\* f"{n:,.0f}" of a non-negative whole number
RECURSIVE FmtThousands(_)
FmtThousands(n) ==
    IF n < 1000 THEN ToString(n)
    ELSE LET r == n % 1000
         IN FmtThousands(n \div 1000) \o ","
              \o (IF r < 10 THEN "00" ELSE IF r < 100 THEN "0" ELSE "") \o ToString(r)

\* a/b rounded to the nearest whole number (b > 0, a >= 0)
RoundDiv(a, b) == (2 * a + b) \div (2 * b)

\* byte order of the characters that occur in names (SQLite's BINARY collation)
ORD == " -0123456789ABCDEFGHIJKLMNOPQRSTUVWXYZ_abcdefghijklmnopqrstuvwxyz"

RECURSIVE StrLess(_, _)
StrLess(a, b) ==
    IF Len(b) = 0 THEN FALSE
    ELSE IF Len(a) = 0 THEN TRUE
    ELSE LET ca == IndexIn(SubSeq(a, 1, 1), ORD)
             cb == IndexIn(SubSeq(b, 1, 1), ORD)
         IN IF ca # cb THEN ca < cb
            ELSE StrLess(SubSeq(a, 2, Len(a)), SubSeq(b, 2, Len(b)))

\* ORDER BY (units_on_hand - reorder_point) ASC: a stable insertion sort
RECURSIVE InsertByDeficit(_, _)
InsertByDeficit(sorted, r) ==
    IF Len(sorted) = 0 THEN <<r>>
    ELSE IF r.units_on_hand - r.reorder_point <= sorted[1].units_on_hand - sorted[1].reorder_point
         THEN <<r>> \o sorted
    ELSE <<sorted[1]>> \o InsertByDeficit(Tail(sorted), r)

RECURSIVE SortByDeficit(_)
SortByDeficit(rows) ==
    IF Len(rows) = 0 THEN <<>>
    ELSE InsertByDeficit(SortByDeficit(Tail(rows)), rows[1])

\* ORDER BY category, sku_name (category = "" gives ORDER BY sku_name alone)
RowNameLess(a, b) ==
    IF a.category # b.category THEN StrLess(a.category, b.category)
    ELSE StrLess(a.sku_name, b.sku_name)

RECURSIVE InsertByName(_, _)
InsertByName(sorted, r) ==
    IF Len(sorted) = 0 THEN <<r>>
    ELSE IF ~RowNameLess(sorted[1], r) THEN <<r>> \o sorted
    ELSE <<sorted[1]>> \o InsertByName(Tail(sorted), r)

RECURSIVE SortByName(_)
SortByName(rows) ==
    IF Len(rows) = 0 THEN <<>>
    ELSE InsertByName(SortByName(Tail(rows)), rows[1])

(***************************************************************************)
(* The Lookup Store: src/database/db.py                                    *)
(*                                                                         *)
(* A database is [mode, inventory, weather_products].  mode "unreachable": *)
(* sqlite3.connect raises; "noschema": the connection opens but the seed   *)
(* was not loaded, so every table is missing; "ok": the seeded tables.     *)
(* An inventory row carries its supplier's columns (the JOIN on            *)
(* supplier_id is done: the foreign key is enforced, db.py line 74).       *)
(* avg_daily_sales and demand_multiplier are kept in tenths.               *)
(***************************************************************************)

InvRow(id, name, cat, onHand, reorder, target, avgTenths, price, s7, s30, ws, sup, lead, minQty) ==
    [sku_id |-> id, sku_name |-> name, category |-> cat, units_on_hand |-> onHand,
     reorder_point |-> reorder, target_stock |-> target, avg_daily_sales |-> avgTenths,
     unit_price |-> price, sales_last_7d |-> s7, sales_last_30d |-> s30,
     weather_sensitive |-> ws, supplier_name |-> sup, lead_time_days |-> lead,
     min_order_qty |-> minQty]

WpRow(cond, cat, multTenths) ==
    [weather_condition |-> cond, affected_category |-> cat, demand_multiplier |-> multTenths]

\* get_connection: the thread's connection, or the error sqlite3.connect raises
get_connection(db) ==
    IF db.mode = "unreachable" THEN Raise("unable to open database file") ELSE Ok(TRUE)

\* init_db: the connection is taken outside the try block; everything else
\* is reported in the returned status
InitOn(conn, db) ==
    IF ~conn.ok THEN conn
    ELSE IF db.mode = "noschema"
         THEN Ok([ok |-> FALSE, error |-> "Seed file not found: seed.sql"])
    ELSE Ok([ok |-> TRUE, total_rows |-> Len(db.inventory) + Len(db.weather_products)])

init_db(db) == InitOn(get_connection(db), db)

LOW_STOCK_SQL ==
    "\n    SELECT \n        i.sku_id,\n        i.sku_name,\n        i.category,\n        i.units_on_hand,\n"
    \o "        i.reorder_point,\n        i.target_stock,\n        i.unit_cost,\n        i.avg_daily_sales,\n"
    \o "        i.weather_sensitive,\n        s.supplier_name,\n        s.supplier_id,\n        s.lead_time_days,\n"
    \o "        s.min_order_qty\n    FROM inventory i\n    JOIN suppliers s ON i.supplier_id = s.supplier_id\n"
    \o "    WHERE i.units_on_hand <= i.reorder_point\n    ORDER BY (i.units_on_hand - i.reorder_point) ASC\n    "

BY_CATEGORY_SQL ==
    "\n    SELECT \n        i.sku_id,\n        i.sku_name,\n        i.units_on_hand,\n        i.reorder_point,\n"
    \o "        i.unit_price,\n        i.avg_daily_sales,\n        i.sales_last_7d,\n        i.sales_last_30d,\n"
    \o "        i.weather_sensitive,\n        s.supplier_name\n    FROM inventory i\n"
    \o "    JOIN suppliers s ON i.supplier_id = s.supplier_id\n    WHERE LOWER(i.category) LIKE LOWER(?)\n"
    \o "    ORDER BY i.sku_name\n    "

WEATHER_SENSITIVE_SQL ==
    "\n    SELECT \n        i.sku_id,\n        i.sku_name,\n        i.category,\n        i.units_on_hand,\n"
    \o "        i.reorder_point,\n        i.avg_daily_sales,\n        wp.weather_condition,\n"
    \o "        wp.demand_multiplier,\n        wp.notes as weather_notes\n    FROM inventory i\n"
    \o "    LEFT JOIN weather_products wp ON i.category = wp.affected_category\n"
    \o "    WHERE i.weather_sensitive = 1\n    ORDER BY i.category, i.sku_name\n    "

IsLowStock(r) == r.units_on_hand <= r.reorder_point

IsWeatherSensitive(r) == r.weather_sensitive = 1

\* the rows of LEFT JOIN weather_products for one inventory row: one per
\* matching weather_products row, or the row itself with NULLs
RECURSIVE JoinWeather(_, _)
JoinWeather(r, wps) ==
    IF Len(wps) = 0 THEN <<>>
    ELSE (IF wps[1].affected_category = r.category
          THEN <<[sku_name |-> r.sku_name, category |-> r.category,
                  units_on_hand |-> r.units_on_hand, matched |-> TRUE,
                  weather_condition |-> wps[1].weather_condition,
                  demand_multiplier |-> wps[1].demand_multiplier]>>
          ELSE <<>>) \o JoinWeather(r, Tail(wps))

LeftJoinWeather(r, wps) ==
    IF JoinWeather(r, wps) # <<>> THEN JoinWeather(r, wps)
    ELSE <<[sku_name |-> r.sku_name, category |-> r.category,
            units_on_hand |-> r.units_on_hand, matched |-> FALSE,
            weather_condition |-> "", demand_multiplier |-> 0]>>

RECURSIVE LeftJoinAll(_, _)
LeftJoinAll(rows, wps) ==
    IF Len(rows) = 0 THEN <<>>
    ELSE LeftJoinWeather(rows[1], wps) \o LeftJoinAll(Tail(rows), wps)

\* ORDER BY sku_name
RECURSIVE InsertBySkuName(_, _)
InsertBySkuName(sorted, r) ==
    IF Len(sorted) = 0 THEN <<r>>
    ELSE IF ~StrLess(sorted[1].sku_name, r.sku_name) THEN <<r>> \o sorted
    ELSE <<sorted[1]>> \o InsertBySkuName(Tail(sorted), r)

RECURSIVE SortBySkuName(_)
SortBySkuName(rows) ==
    IF Len(rows) = 0 THEN <<>>
    ELSE InsertBySkuName(SortBySkuName(Tail(rows)), rows[1])

\* WHERE LOWER(i.category) LIKE LOWER(?) with the parameter "%<text>%"
CategoryLike(rows, param) ==
    LET like == Lower(SubSeq(param, 2, Len(param) - 1))
        Matches(r) == Contains(Lower(r.category), like)
    IN SelectSeq(rows, Matches)

\* statements a caller of run_query can send besides those of the tools: a
\* count, a DELETE behind a WITH clause, and two statements in one string
COUNT_SQL == "  select count(*) from inventory"
WITH_DELETE_SQL ==
    "WITH low AS (SELECT sku_id FROM inventory WHERE units_on_hand <= reorder_point) "
    \o "DELETE FROM inventory WHERE sku_id IN (SELECT sku_id FROM low)"
TWO_STATEMENTS_SQL == "SELECT 1; DROP TABLE inventory"

\* the contents of the store after SQLite ran the statement: the DELETE of
\* WITH_DELETE_SQL is carried out, every other statement here leaves them
StoreAfter(db, query) ==
    IF db.mode = "ok" /\ query = WITH_DELETE_SQL
    THEN [db EXCEPT !.inventory = SelectSeq(db.inventory, LAMBDA r : ~IsLowStock(r))]
    ELSE db

\* what SQLite answers to a statement the tools send: the result set
\* [columns, rows], or the error text
Execute(db, query, params) ==
    IF query = TWO_STATEMENTS_SQL
    THEN Raise("You can only execute one statement at a time.")
    ELSE IF db.mode # "ok"
    THEN Raise("Execution failed on sql '" \o query \o "': no such table: inventory")
    ELSE IF query = COUNT_SQL
         THEN Ok([columns |-> {"count(*)"}, rows |-> <<[count |-> Len(db.inventory)]>>])
    ELSE IF query = WITH_DELETE_SQL
         THEN Raise("'NoneType' object is not iterable")
    ELSE IF query = LOW_STOCK_SQL
         THEN Ok([columns |-> {"sku_id", "sku_name", "category", "units_on_hand", "reorder_point",
                               "target_stock", "unit_cost", "avg_daily_sales", "weather_sensitive",
                               "supplier_name", "supplier_id", "lead_time_days", "min_order_qty"},
                  rows |-> SortByDeficit(SelectSeq(db.inventory, IsLowStock))])
    ELSE IF query = BY_CATEGORY_SQL
         THEN Ok([columns |-> {"sku_id", "sku_name", "units_on_hand", "reorder_point", "unit_price",
                               "avg_daily_sales", "sales_last_7d", "sales_last_30d",
                               "weather_sensitive", "supplier_name"},
                  rows |-> SortBySkuName(CategoryLike(db.inventory, params[1]))])
    ELSE IF query = WEATHER_SENSITIVE_SQL
         THEN Ok([columns |-> {"sku_id", "sku_name", "category", "units_on_hand", "reorder_point",
                               "avg_daily_sales", "weather_condition", "demand_multiplier",
                               "weather_notes"},
                  rows |-> LeftJoinAll(SortByName(SelectSeq(db.inventory, IsWeatherSensitive)),
                                       db.weather_products)])
    ELSE Raise("near \"" \o Prefix(Strip(query), 6) \o "\": syntax error")

\* the except clause of run_query: a failed read is the one-row frame
\* {"error": [str(e)]}
ReadFrame(res) ==
    IF res.ok THEN res ELSE Ok([columns |-> {"error"}, rows |-> <<[error |-> res.err]>>])

\* the statement is read on the connection, which is taken outside the try block
ReadOn(conn, db, query, params) ==
    IF ~conn.ok THEN conn ELSE ReadFrame(Execute(db, query, params))

SelectOnly(query_upper) ==
    StartsWith(query_upper, "SELECT") \/ StartsWith(query_upper, "WITH")

run_query(db, query, params) ==
    IF ~SelectOnly(Upper(Strip(query)))
    THEN Raise("Only SELECT or WITH queries are allowed for safety")
    ELSE ReadOn(get_connection(db), db, query, params)

\* the contents of the store after run_query(query): the statement reaches
\* SQLite when it passes the check and the connection opens
StoreAfterQuery(db, query) ==
    IF SelectOnly(Upper(Strip(query))) /\ get_connection(db).ok THEN StoreAfter(db, query)
    ELSE db

(***************************************************************************)
(* The database tools: src/tools/db_tools.py.  Each returns text; every    *)
(* exception is caught inside the tool and returned as "Error: ..." text.  *)
(* The bullet, arrow and rupee signs of the source are written *, -> and   *)
(* Rs. here.                                                               *)
(***************************************************************************)

LowStockEntry(row) ==
    LET deficit == row.reorder_point - row.units_on_hand
        days_until_stockout == RoundDiv(row.units_on_hand * 100, Max(row.avg_daily_sales, 1))
        recommended_qty == Max(row.target_stock - row.units_on_hand, row.min_order_qty)
    IN "[!] " \o row.sku_id \o ": " \o row.sku_name \o "\n"
       \o "   Category: " \o row.category \o "\n"
       \o "   Current Stock: " \o Str(row.units_on_hand) \o " (Reorder at: " \o Str(row.reorder_point) \o ")\n"
       \o "   Deficit: " \o Str(deficit) \o " units below threshold\n"
       \o "   Days Until Stockout: ~" \o Fmt1(days_until_stockout) \o " days\n"
       \o "   Avg Daily Sales: " \o Fmt1(row.avg_daily_sales) \o " units\n"
       \o "   Supplier: " \o row.supplier_name \o " (Lead Time: " \o Str(row.lead_time_days) \o " days)\n"
       \o "   Recommended Order: " \o Str(recommended_qty) \o " units (min: " \o Str(row.min_order_qty) \o ")\n\n"

RECURSIVE LowStockEntries(_)
LowStockEntries(rows) ==
    IF Len(rows) = 0 THEN "" ELSE LowStockEntry(rows[1]) \o LowStockEntries(Tail(rows))

\* the text get_low_stock_items makes of the outcome df of run_query
LowStockText(df) ==
    IF ~df.ok THEN "Error: " \o df.err
    ELSE IF "error" \in df.val.columns
         THEN "Error querying low stock items: " \o df.val.rows[1].error
    ELSE IF Len(df.val.rows) = 0
         THEN "[OK] All inventory items are above their reorder points. No immediate restocking needed."
    ELSE "[WARNING] Found " \o Str(Len(df.val.rows)) \o " items below reorder point:\n\n"
         \o LowStockEntries(df.val.rows)

get_low_stock_items(db) == LowStockText(run_query(db, LOW_STOCK_SQL, <<>>))

CategoryEntry(row) ==
    LET stock_status == IF row.units_on_hand <= row.reorder_point THEN "[LOW]" ELSE "[OK]"
        weather_flag == IF row.weather_sensitive # 0 THEN "[Weather-Sensitive]" ELSE ""
        stock_value == row.units_on_hand * row.unit_price
    IN stock_status \o " " \o row.sku_id \o ": " \o row.sku_name \o "\n"
       \o "   Stock: " \o Str(row.units_on_hand) \o " units | Value: Rs." \o FmtThousands(stock_value) \o "\n"
       \o "   Sales: " \o Str(row.sales_last_7d) \o " (7d) / " \o Str(row.sales_last_30d) \o " (30d)\n"
       \o "   Supplier: " \o row.supplier_name \o " | " \o weather_flag \o "\n\n"

RECURSIVE CategoryEntries(_)
CategoryEntries(rows) ==
    IF Len(rows) = 0 THEN "" ELSE CategoryEntry(rows[1]) \o CategoryEntries(Tail(rows))

RECURSIVE TotalValue(_)
TotalValue(rows) ==
    IF Len(rows) = 0 THEN 0
    ELSE rows[1].units_on_hand * rows[1].unit_price + TotalValue(Tail(rows))

\* the text get_inventory_by_category makes of the outcome df of run_query
CategoryText(df, category) ==
    IF ~df.ok THEN "Error: " \o df.err
    ELSE IF "error" \in df.val.columns THEN "Error: " \o df.val.rows[1].error
    ELSE IF Len(df.val.rows) = 0
         THEN "No items found in category '" \o category
              \o "'. Available categories: Umbrellas, Raincoats, Summer Wear, Winter Wear, Electronics, Home Essentials"
    ELSE "[INVENTORY] " \o Str(Len(df.val.rows)) \o " items in '" \o category \o "':\n\n"
         \o CategoryEntries(df.val.rows)
         \o "\nTotal Stock Value: Rs." \o FmtThousands(TotalValue(df.val.rows))

get_inventory_by_category(db, category) ==
    CategoryText(run_query(db, BY_CATEGORY_SQL, <<"%" \o category \o "%">>), category)

\* one row of the weather-sensitive listing; anyMatched: some row of the
\* frame has a weather_products match (a NULL multiplier then reads as NaN,
\* which `or 1.0` keeps; in a frame of NULLs alone it reads as None)
RECURSIVE WeatherSensitiveEntries(_, _, _)
WeatherSensitiveEntries(rows, current_category, anyMatched) ==
    IF Len(rows) = 0 THEN ""
    ELSE LET row == rows[1]
             header == IF row.category # current_category
                       THEN "\n[" \o row.category \o "]\n" \o Repeat("-", 40) \o "\n"
                       ELSE ""
             multiplier == IF row.matched THEN Fmt1(row.demand_multiplier)
                           ELSE IF anyMatched THEN "nan" ELSE "1.0"
             condition == IF row.matched THEN row.weather_condition ELSE "normal"
         IN header
            \o "* " \o row.sku_name \o ": " \o Str(row.units_on_hand) \o " units\n"
            \o "  " \o Title(condition) \o " -> " \o multiplier \o "x demand\n"
            \o WeatherSensitiveEntries(Tail(rows), row.category, anyMatched)

\* the text get_weather_sensitive_products makes of the outcome df of run_query
WeatherSensitiveText(df) ==
    IF ~df.ok THEN "Error: " \o df.err
    ELSE IF "error" \in df.val.columns THEN "Error: " \o df.val.rows[1].error
    ELSE "[WEATHER] Weather-Sensitive Products:\n\n"
         \o WeatherSensitiveEntries(df.val.rows, "",
                                    \E i \in 1..Len(df.val.rows) : df.val.rows[i].matched)

get_weather_sensitive_products(db) ==
    WeatherSensitiveText(run_query(db, WEATHER_SENSITIVE_SQL, <<>>))

(***************************************************************************)
(* The weather tools: src/tools/weather_tools.py                           *)
(***************************************************************************)

Day(d, hi, lo, cond, rain) ==
    [day |-> d, temp_high |-> hi, temp_low |-> lo, condition |-> cond, rain_prob |-> rain]

MOCK_WEATHER_DATA ==
    [mumbai |->
        [current |-> [temp |-> 32, condition |-> "humid", humidity |-> 85],
         forecast |-> <<Day(1, 33, 27, "rain", 80), Day(2, 31, 26, "heavy_rain", 95),
                        Day(3, 30, 25, "rain", 70), Day(4, 32, 26, "cloudy", 40),
                        Day(5, 33, 27, "clear", 10), Day(6, 34, 28, "hot", 5),
                        Day(7, 35, 28, "very_hot", 0)>>],
     delhi |->
        [current |-> [temp |-> 38, condition |-> "very_hot", humidity |-> 35],
         forecast |-> <<Day(1, 40, 28, "very_hot", 0), Day(2, 41, 29, "very_hot", 5),
                        Day(3, 39, 28, "hot", 10), Day(4, 38, 27, "hot", 15),
                        Day(5, 36, 26, "clear", 20), Day(6, 35, 25, "cloudy", 30),
                        Day(7, 34, 25, "rain", 60)>>],
     bengaluru |->
        [current |-> [temp |-> 26, condition |-> "pleasant", humidity |-> 65],
         forecast |-> <<Day(1, 28, 20, "clear", 15), Day(2, 27, 19, "cloudy", 30),
                        Day(3, 26, 19, "rain", 65), Day(4, 25, 18, "rain", 55),
                        Day(5, 27, 19, "cloudy", 25), Day(6, 28, 20, "clear", 10),
                        Day(7, 29, 20, "clear", 5)>>],
     default |->
        [current |-> [temp |-> 30, condition |-> "clear", humidity |-> 50],
         forecast |-> <<Day(1, 31, 22, "clear", 10), Day(2, 32, 23, "cloudy", 25),
                        Day(3, 30, 22, "rain", 50), Day(4, 29, 21, "clear", 15),
                        Day(5, 31, 22, "clear", 5), Day(6, 33, 24, "hot", 0),
                        Day(7, 34, 25, "hot", 0)>>]]

\* demand multipliers, in tenths
Impacts(umb, rnc, summer, elec, home, winter) ==
    [Umbrellas |-> umb, Raincoats |-> rnc, Summer_Wear |-> summer, Electronics |-> elec,
     Home_Essentials |-> home, Winter_Wear |-> winter]

CONDITION_IMPACTS ==
    [rain       |-> Impacts(25, 20, 6, 10, 10, 8),
     heavy_rain |-> Impacts(30, 25, 5, 10, 11, 7),
     hot        |-> Impacts(7, 3, 18, 11, 12, 2),
     very_hot   |-> Impacts(5, 2, 22, 12, 14, 1),
     cold       |-> Impacts(8, 6, 3, 10, 11, 18),
     very_cold  |-> Impacts(6, 5, 2, 9, 12, 25),
     clear      |-> Impacts(5, 4, 12, 10, 10, 8),
     cloudy     |-> Impacts(12, 10, 9, 10, 10, 10)]

\* the keys of category_impacts, in insertion order, with the field that
\* holds each in an Impacts record
IMPACT_CATEGORIES ==
    << <<"Umbrellas", "Umbrellas">>, <<"Raincoats", "Raincoats">>,
       <<"Summer Wear", "Summer_Wear">>, <<"Winter Wear", "Winter_Wear">>,
       <<"Electronics", "Electronics">>, <<"Home Essentials", "Home_Essentials">> >>

\* the dates of the forecast days: datetime.now() is read as Thu 05 Nov
DAY_NAMES == <<"Fri 06 Nov", "Sat 07 Nov", "Sun 08 Nov", "Mon 09 Nov", "Tue 10 Nov",
               "Wed 11 Nov", "Thu 12 Nov">>

\* s.replace('_', ' ')
RECURSIVE ReplaceUnderscore(_)
ReplaceUnderscore(s) ==
    IF Len(s) = 0 THEN ""
    ELSE (IF SubSeq(s, 1, 1) = "_" THEN " " ELSE SubSeq(s, 1, 1)) \o ReplaceUnderscore(SubSeq(s, 2, Len(s)))

RegionKey(region) ==
    IF Lower(Strip(region)) \in DOMAIN MOCK_WEATHER_DATA /\ Lower(Strip(region)) # "default"
    THEN Lower(Strip(region))
    ELSE "default"

DayEmoji(day) ==
    IF Contains(day.condition, "rain") THEN "[RAIN]"
    ELSE IF Contains(day.condition, "hot") THEN "[HOT]"
    ELSE IF day.condition = "cold" \/ day.condition = "very_cold" THEN "[COLD]"
    ELSE IF day.condition = "cloudy" THEN "[CLOUD]"
    ELSE "[CLEAR]"

RECURSIVE ForecastDays(_)
ForecastDays(forecast) ==
    IF Len(forecast) = 0 THEN ""
    ELSE LET day == forecast[1]
         IN DayEmoji(day) \o " " \o DAY_NAMES[day.day] \o ": " \o Title(ReplaceUnderscore(day.condition)) \o "\n"
            \o "   High: " \o Str(day.temp_high) \o "C | Low: " \o Str(day.temp_low) \o "C\n"
            \o "   Rain Probability: " \o Str(day.rain_prob) \o "%\n\n"
            \o ForecastDays(Tail(forecast))

RainyDays(forecast) == Cardinality({i \in 1..Len(forecast) : Contains(forecast[i].condition, "rain")})

HotDays(forecast) ==
    Cardinality({i \in 1..Len(forecast) :
                    ~Contains(forecast[i].condition, "rain") /\ Contains(forecast[i].condition, "hot")})

get_weather_forecast(region, days) ==
    LET weather == MOCK_WEATHER_DATA[RegionKey(region)]
        current == weather.current
        forecast == SubSeq(weather.forecast, 1, Min(days, 7))
    IN "[WEATHER] Weather Forecast for " \o Title(region) \o "\n"
       \o Repeat("=", 40) \o "\n\n"
       \o "[CURRENT] Current Conditions:\n"
       \o "   Temperature: " \o Str(current.temp) \o "C\n"
       \o "   Condition: " \o Title(ReplaceUnderscore(current.condition)) \o "\n"
       \o "   Humidity: " \o Str(current.humidity) \o "%\n\n"
       \o "[FORECAST] " \o Str(days) \o "-Day Forecast:\n"
       \o Repeat("-", 40) \o "\n"
       \o ForecastDays(forecast)
       \o "[SUMMARY]:\n"
       \o "   Rainy Days: " \o Str(RainyDays(forecast)) \o "/" \o Str(Len(forecast)) \o "\n"
       \o "   Hot Days: " \o Str(HotDays(forecast)) \o "/" \o Str(Len(forecast)) \o "\n"
       \o (IF RainyDays(forecast) >= 3
           THEN "   [!] ALERT: Extended rain period expected - stock up on rain gear!\n" ELSE "")
       \o (IF HotDays(forecast) >= 3
           THEN "   [!] ALERT: Heat wave expected - increase summer wear inventory!\n" ELSE "")

\* sum of one category's multipliers (tenths) over the forecast days
RECURSIVE SumImpact(_, _)
SumImpact(forecast, field) ==
    IF Len(forecast) = 0 THEN 0
    ELSE (IF forecast[1].condition \in DOMAIN CONDITION_IMPACTS
          THEN CONDITION_IMPACTS[forecast[1].condition][field]
          ELSE CONDITION_IMPACTS["clear"][field])
         + SumImpact(Tail(forecast), field)

\* f"{category:20}"
PadRight(s, width) == s \o Repeat(" ", width - Len(s))

\* the averages of all categories: [name, sum (tenths), n]; the average is
\* sum / (10 * n), and 1.0 when there is no forecast day
CategoryAverages(forecast) ==
    [i \in 1..Len(IMPACT_CATEGORIES) |->
        IF Len(forecast) = 0 THEN [name |-> IMPACT_CATEGORIES[i][1], sum |-> 10, n |-> 1]
        ELSE [name |-> IMPACT_CATEGORIES[i][1],
              sum |-> SumImpact(forecast, IMPACT_CATEGORIES[i][2]), n |-> Len(forecast)]]

IsHighImpact(a) == a.sum >= 15 * a.n

IsLowImpact(a) == a.sum <= 6 * a.n

RECURSIVE MultiplierLines(_)
MultiplierLines(avgs) ==
    IF Len(avgs) = 0 THEN ""
    ELSE LET a == avgs[1]
             indicator == IF IsHighImpact(a) THEN "[^] HIGH DEMAND"
                          ELSE IF IsLowImpact(a) THEN "[v] LOW DEMAND"
                          ELSE "[-] NORMAL"
         IN PadRight(a.name, 20) \o " | " \o Fmt2(RoundDiv(a.sum * 10, a.n)) \o "x | " \o indicator \o "\n"
            \o MultiplierLines(Tail(avgs))

\* sorted(..., key=lambda x: -x[1]): stable, largest average first
RECURSIVE InsertDescending(_, _)
InsertDescending(sorted, a) ==
    IF Len(sorted) = 0 THEN <<a>>
    ELSE IF a.sum >= sorted[1].sum THEN <<a>> \o sorted
    ELSE <<sorted[1]>> \o InsertDescending(Tail(sorted), a)

RECURSIVE SortDescending(_)
SortDescending(avgs) ==
    IF Len(avgs) = 0 THEN <<>> ELSE InsertDescending(SortDescending(Tail(avgs)), avgs[1])

\* sorted(..., key=lambda x: x[1]): stable, smallest average first
RECURSIVE InsertAscending(_, _)
InsertAscending(sorted, a) ==
    IF Len(sorted) = 0 THEN <<a>>
    ELSE IF a.sum <= sorted[1].sum THEN <<a>> \o sorted
    ELSE <<sorted[1]>> \o InsertAscending(Tail(sorted), a)

RECURSIVE SortAscending(_)
SortAscending(avgs) ==
    IF Len(avgs) = 0 THEN <<>> ELSE InsertAscending(SortAscending(Tail(avgs)), avgs[1])

RECURSIVE PriorityLines(_)
PriorityLines(avgs) ==
    IF Len(avgs) = 0 THEN ""
    ELSE "   * " \o avgs[1].name \o ": " \o Fmt1(RoundDiv(avgs[1].sum, avgs[1].n))
         \o "x expected demand increase\n" \o PriorityLines(Tail(avgs))

RECURSIVE ReduceLines(_)
ReduceLines(avgs) ==
    IF Len(avgs) = 0 THEN ""
    ELSE "   * " \o avgs[1].name \o ": Only " \o Fmt1(RoundDiv(avgs[1].sum, avgs[1].n))
         \o "x normal demand expected\n" \o ReduceLines(Tail(avgs))

get_weather_impact(region, days) ==
    LET forecast == SubSeq(MOCK_WEATHER_DATA[RegionKey(region)].forecast, 1, Min(days, 7))
        avgs == CategoryAverages(forecast)
        high_impact == SelectSeq(avgs, IsHighImpact)
        low_impact == SelectSeq(avgs, LAMBDA a : ~IsHighImpact(a) /\ IsLowImpact(a))
    IN "[IMPACT] Weather Impact Analysis for " \o Title(region) \o " (" \o Str(days) \o " days)\n"
       \o Repeat("=", 50) \o "\n\n"
       \o "Category Demand Multipliers:\n"
       \o Repeat("-", 50) \o "\n"
       \o MultiplierLines(avgs)
       \o "\n"
       \o (IF Len(high_impact) > 0
           THEN "[PRIORITY] PRIORITIZE RESTOCKING:\n" \o PriorityLines(SortDescending(high_impact)) \o "\n"
           ELSE "")
       \o (IF Len(low_impact) > 0
           THEN "[REDUCE] REDUCE ORDERS FOR:\n" \o ReduceLines(SortAscending(low_impact))
           ELSE "")

(***************************************************************************)
(* The ticket tools: src/tools/ticket_tools.py.  Each creation returns the *)
(* ticket appended to _TICKETS and the confirmation text.  hex is the      *)
(* uuid4().hex drawn by the call; datetime.now() is read as NOW.           *)
(***************************************************************************)

NOW_ISO == "2026-11-05T12:00:00.000000"
NOW_MINUTE == "2026-11-05 12:00"

create_reorder_ticket(sku_id, sku_name, quantity, supplier_name, reason, priority, hex) ==
    LET ticket_id == "TKT-" \o Upper(Prefix(hex, 8))
        ticket == [ticket_id |-> ticket_id, type |-> "REORDER", status |-> "PENDING",
                   priority |-> Upper(priority), created_at |-> NOW_ISO,
                   data |-> [sku_id |-> sku_id, sku_name |-> sku_name, quantity |-> quantity,
                             supplier_name |-> supplier_name, reason |-> reason]]
        priority_emoji == IF Lower(priority) = "low" THEN "[LOW]"
                          ELSE IF Lower(priority) = "medium" THEN "[MED]"
                          ELSE IF Lower(priority) = "high" THEN "[HIGH]"
                          ELSE IF Lower(priority) = "urgent" THEN "[URGENT]"
                          ELSE "[MED]"
    IN [ticket |-> ticket,
        result |-> "\n[SUCCESS] REORDER TICKET CREATED\n================================\n"
                   \o priority_emoji \o " Ticket ID: " \o ticket_id \o "\n"
                   \o "Priority: " \o Upper(priority) \o "\nStatus: PENDING\n\n"
                   \o "Product: " \o sku_name \o " (" \o sku_id \o ")\n"
                   \o "Quantity: " \o Str(quantity) \o " units\n"
                   \o "Supplier: " \o supplier_name \o "\n"
                   \o "Reason: " \o reason \o "\n\n"
                   \o "Created: " \o NOW_MINUTE \o "\n\n"
                   \o "[This is a mock ticket - would be sent to Jira/Notion in production]\n"]

create_alert_ticket(category, alert_type, severity, description, recommended_action, hex) ==
    LET ticket_id == "ALT-" \o Upper(Prefix(hex, 8))
        ticket == [ticket_id |-> ticket_id, type |-> "ALERT", status |-> "OPEN",
                   severity |-> Upper(severity), created_at |-> NOW_ISO,
                   data |-> [category |-> category, alert_type |-> alert_type,
                             description |-> description,
                             recommended_action |-> recommended_action]]
        severity_emoji == IF Lower(severity) = "info" THEN "[INFO]"
                          ELSE IF Lower(severity) = "warning" THEN "[WARNING]"
                          ELSE IF Lower(severity) = "critical" THEN "[CRITICAL]"
                          ELSE "[WARNING]"
    IN [ticket |-> ticket,
        result |-> "\n" \o severity_emoji \o " ALERT TICKET CREATED\n===========================\n"
                   \o "Ticket ID: " \o ticket_id \o "\n"
                   \o "Type: " \o alert_type \o "\n"
                   \o "Severity: " \o Upper(severity) \o "\nStatus: OPEN\n\n"
                   \o "Category: " \o category \o "\n"
                   \o "Description: " \o description \o "\n\n"
                   \o "Recommended Action:\n   " \o recommended_action \o "\n\n"
                   \o "Created: " \o NOW_MINUTE \o "\n\n"
                   \o "[This is a mock alert - would trigger notifications in production]\n"]

\* the tickets whose status is PENDING only
PendingOnly(tickets) == SelectSeq(tickets, LAMBDA t : t.status = "PENDING")

\* [t for t in _TICKETS if t["status"] in ("PENDING", "OPEN")]
Pending(tickets) == SelectSeq(tickets, LAMBDA t : t.status \in {"PENDING", "OPEN"})

\* the lines of get_pending_tickets for the reorder tickets and for the
\* alerts (the bullet character of the source is written *)
PendingReorderLines(reorders) ==
    Join("", [i \in 1..Len(reorders) |->
                "* " \o reorders[i].ticket_id \o " [" \o reorders[i].priority \o "]\n"
                \o "  " \o reorders[i].data.sku_name \o ": "
                \o Str(reorders[i].data.quantity) \o " units\n"
                \o "  Supplier: " \o reorders[i].data.supplier_name \o "\n\n"])

PendingAlertLines(alerts) ==
    Join("", [i \in 1..Len(alerts) |->
                "* " \o alerts[i].ticket_id \o " [" \o alerts[i].severity \o "]\n"
                \o "  Type: " \o alerts[i].data.alert_type \o "\n"
                \o "  " \o Prefix(alerts[i].data.description, 50) \o "...\n\n"])

PendingText(pending, reorders, alerts) ==
    IF pending = <<>>
    THEN "[OK] No pending tickets. All inventory actions are up to date."
    ELSE "PENDING TICKETS (" \o Str(Len(pending)) \o " total)\n"
         \o Repeat("=", 50) \o "\n\n"
         \o (IF reorders # <<>>
             THEN "REORDER TICKETS:\n" \o Repeat("-", 30) \o "\n" \o PendingReorderLines(reorders)
             ELSE "")
         \o (IF alerts # <<>>
             THEN "ALERT TICKETS:\n" \o Repeat("-", 30) \o "\n" \o PendingAlertLines(alerts)
             ELSE "")

PendingGrouped(pending) ==
    PendingText(pending,
                SelectSeq(pending, LAMBDA t : t.type = "REORDER"),
                SelectSeq(pending, LAMBDA t : t.type = "ALERT"))

\* get_pending_tickets on the module-level list tickets
get_pending_tickets(tickets) == PendingGrouped(Pending(tickets))

(***************************************************************************)
(* re.findall(r'([A-Z]+_\d+):\s*([^\n]+)', text): the non-overlapping      *)
(* matches from left to right, each a pair <<sku_id, rest of line>>.       *)
(***************************************************************************)

CharAt(t, i) == SubSeq(t, i, i)

\* the first position >= i whose character is not in the alphabet abc
RECURSIVE RunEnd(_, _, _)
RunEnd(t, i, abc) ==
    IF i <= Len(t) /\ CharIn(CharAt(t, i), abc) THEN RunEnd(t, i + 1, abc) ELSE i

\* \s of the re module, for the characters that occur
WHITESPACE == " \n\t\r"

\* the first position >= i that holds a newline (Len(t) + 1 when none)
RECURSIVE LineEnd(_, _)
LineEnd(t, i) == IF i <= Len(t) /\ CharAt(t, i) # "\n" THEN LineEnd(t, i + 1) ELSE i

\* the match that starts at position i, if there is one:
\* [found, id, name, next] with next the position after the match.
\* The id is t[i..d-1]; starts: the positions where ([^\n]+) can start
\* (\s* is greedy and gives characters back until [^\n]+ can start)
MatchName(t, i, d, starts) ==
    IF starts = {} THEN [found |-> FALSE]
    ELSE LET g == CHOOSE k \in starts : \A j \in starts : j <= k
         IN [found |-> TRUE, id |-> SubSeq(t, i, d - 1),
             name |-> SubSeq(t, g, LineEnd(t, g) - 1), next |-> LineEnd(t, g)]

\* w: the end of the run of \s after the colon at position d
MatchSpace(t, i, d, w) ==
    MatchName(t, i, d, {k \in (d + 1)..w : k <= Len(t) /\ CharAt(t, k) # "\n"})

\* d: the end of the run of \d after the underscore at position u
MatchColon(t, i, u, d) ==
    IF d > u + 1 /\ d <= Len(t) /\ CharAt(t, d) = ":"
    THEN MatchSpace(t, i, d, RunEnd(t, d + 1, WHITESPACE))
    ELSE [found |-> FALSE]

\* u: the end of the run of [A-Z] that starts at position i
MatchUnderscore(t, i, u) ==
    IF u > i /\ u <= Len(t) /\ CharAt(t, u) = "_"
    THEN MatchColon(t, i, u, RunEnd(t, u + 1, DIGITS))
    ELSE [found |-> FALSE]

MatchSkuAt(t, i) == MatchUnderscore(t, i, RunEnd(t, i, UPPER))

\* the positions where a match can start
SkuStarts(t) == {i \in 1..Len(t) : CharAt(t, i) \in UPPER_CHARS /\ MatchSkuAt(t, i).found}

\* the leftmost match at or after position i, then the matches after it
RECURSIVE FindSkusFrom(_, _, _)
FindSkusFrom(t, starts, i) ==
    LET rest == {k \in starts : k >= i}
        first == CHOOSE k \in rest : \A j \in rest : k <= j
        m == MatchSkuAt(t, first)
    IN IF rest = {} THEN <<>>
       ELSE << <<m.id, m.name>> >> \o FindSkusFrom(t, starts, m.next)

FindSkus(t, i) == FindSkusFrom(t, SkuStarts(t), i)

\* sku_name.split('\n')[0]
FirstLine(s) == SubSeq(s, 1, LineEnd(s, 1) - 1)

(***************************************************************************)
(* The shared record: src/agents/state.py.  A message is a record with its *)
(* class (HumanMessage or AIMessage) and its content; the record is a      *)
(* dictionary, so that a key can be absent.                                *)
(***************************************************************************)

HumanMessage(content) == [type |-> "human", content |-> content]
AIMessage(content) == [type |-> "ai", content |-> content]

create_initial_state(user_message) ==
    [messages |-> <<HumanMessage(user_message)>>,
     next |-> "DATA",
     inventory_context |-> EmptyDict,
     weather_context |-> EmptyDict,
     recommendations |-> EmptyDict,
     tickets |-> <<>>,
     error |-> None,
     routing_reason |-> "",
     query_type |-> "",
     region |-> ""]

\* the content of the first HumanMessage of the history, "" when there is none
get_user_query(state) ==
    LET messages == Get(state, "messages", <<>>)
        humans == SelectSeq(messages, LAMBDA m : m.type = "human")
    IN IF humans = <<>> THEN "" ELSE humans[1].content

\* a text value Python's "value or other" takes as false
Falsy(v) == v \in {None, ""}

(***************************************************************************)
(* The stages.  Each returns Ok(update), the dictionary the node returns,  *)
(* or Raise(message) when an exception leaves the node.  fault = k > 0     *)
(* makes the k-th tool invocation of the stage raise TOOL_FAILURE inside   *)
(* the stage's try block (no failure when the stage invokes fewer tools).  *)
(***************************************************************************)

TOOL_FAILURE == "tool invocation failed"

WEATHER_KEYWORDS_WITHOUT_RAIN ==
    <<"weather", "forecast", "monsoon", "temperature", "climate", "hot", "cold">>

WEATHER_KEYWORDS ==
    <<"weather", "forecast", "rain", "monsoon", "temperature", "climate", "hot", "cold">>
DECISION_KEYWORDS ==
    <<"recommend", "reorder", "order", "purchase", "ticket", "action", "should i">>

\* the keyword routing of start_node, after init_db returned db_status
StartRouting(db_status, query) ==
    IF ~db_status.ok THEN db_status
    ELSE IF ContainsAny(query, WEATHER_KEYWORDS) THEN Ok([next |-> "WEATHER"])
    ELSE IF ContainsAny(query, DECISION_KEYWORDS) THEN Ok([next |-> "DATA"])
    ELSE Ok([next |-> "DATA"])

start_node(state, db) == StartRouting(init_db(db), Lower(get_user_query(state)))

end_node(state) == Ok(EmptyDict)

DATA_CATEGORIES == <<"umbrella", "raincoat", "summer", "winter", "electronic", "home">>

\* the (title, data) pairs the Data stage collects for a request
DataResults(user_query, db) ==
    LET matched == SelectSeq(DATA_CATEGORIES, LAMBDA cat : Contains(user_query, cat))
    IN << <<"Low Stock Items", get_low_stock_items(db)>> >>
       \o (IF matched # <<>>
           THEN << <<Title(matched[1]) \o " Inventory",
                     get_inventory_by_category(db, matched[1])>> >>
           ELSE <<>>)
       \o (IF Contains(user_query, "weather") \/ Contains(user_query, "rain")
              \/ Contains(user_query, "monsoon")
           THEN << <<"Weather-Sensitive Products", get_weather_sensitive_products(db)>> >>
           ELSE <<>>)

DataOutput(results) ==
    Join("\n\n", [i \in 1..Len(results) |-> "## " \o results[i][1] \o "\n" \o results[i][2]])

data_except_continue(e) ==
    LET error_msg == "Error: " \o e
    IN [messages |-> <<AIMessage("[Data Agent] " \o error_msg)>>,
        inventory_context |-> [error |-> error_msg],
        next |-> "DECISION",
        error |-> error_msg]

\* the except clause of the Data stage
data_except(e) ==
    LET error_msg == "Error: " \o e
    IN [messages |-> <<AIMessage("[Data Agent] " \o error_msg)>>,
        inventory_context |-> [error |-> error_msg],
        next |-> "END",
        error |-> error_msg]

\* the context the Data stage builds of its output (lowered: output.lower())
DataContext(user_query, output, lowered) ==
    [analysis |-> output,
     query |-> user_query,
     has_low_stock |-> Contains(lowered, "low") \/ Contains(lowered, "below")
                       \/ Contains(output, "LOW"),
     has_weather_items |-> Contains(lowered, "weather") \/ Contains(lowered, "sensitive")]

DataNextAgentViaWeather(user_query, inventory_context) ==
    IF ContainsAny(user_query, <<"recommend", "reorder", "order", "action">>)
    THEN "WEATHER" ELSE "END"

\* the stage the Data stage suggests
DataNextAgent(user_query, inventory_context) ==
    LET query_needs_recommendations ==
            ContainsAny(user_query, <<"recommend", "reorder", "order", "action">>)
        query_asks_weather == ContainsAny(user_query, <<"weather", "forecast", "rain">>)
    IN IF query_asks_weather /\ inventory_context.has_weather_items THEN "WEATHER"
       ELSE IF query_needs_recommendations /\ inventory_context.has_low_stock THEN "DECISION"
       ELSE "END"

DataReturn(user_query, output, inventory_context) ==
    [messages |-> <<AIMessage("[Data Agent]\n" \o output)>>,
     inventory_context |-> inventory_context,
     next |-> DataNextAgent(user_query, inventory_context)]

DataCompiled(user_query, output) ==
    DataReturn(user_query, output, DataContext(user_query, output, Lower(output)))

\* the try block of the Data stage
DataTry(user_query, results, fault) ==
    IF fault \in 1..Len(results) THEN data_except(TOOL_FAILURE)
    ELSE DataCompiled(user_query, DataOutput(results))

\* init_db is called outside the try block
DataAfterInit(db_status, user_query, db, fault) ==
    IF ~db_status.ok THEN db_status
    ELSE Ok(DataTry(user_query, DataResults(user_query, db), fault))

simple_data_agent_node(state, db, fault) ==
    DataAfterInit(init_db(db), Lower(get_user_query(state)), db, fault)

DEFAULT_REGION == "mumbai"
CITIES == <<"mumbai", "delhi", "bengaluru", "bangalore", "chennai", "kolkata", "hyderabad">>

extract_region_from_query(query) ==
    LET found == SelectSeq(CITIES, LAMBDA city : Contains(Lower(query), city))
    IN IF found = <<>> THEN DEFAULT_REGION
       ELSE IF found[1] = "bangalore" THEN "bengaluru" ELSE found[1]

weather_except_ends(e) ==
    LET error_msg == "Error: " \o e
    IN [messages |-> <<AIMessage("[Weather Agent] " \o error_msg)>>,
        weather_context |-> [error |-> error_msg],
        next |-> "END",
        error |-> error_msg]

\* an except clause that also overwrites the Decision stage's recommendations
weather_except_overwrites(e) ==
    LET error_msg == "Error: " \o e
    IN [messages |-> <<AIMessage("[Weather Agent] " \o error_msg)>>,
        weather_context |-> [error |-> error_msg],
        recommendations |-> [error |-> error_msg],
        next |-> "DECISION",
        error |-> error_msg]

\* the except clause of the Weather stage
weather_except(e) ==
    LET error_msg == "Error: " \o e
    IN [messages |-> <<AIMessage("[Weather Agent] " \o error_msg)>>,
        weather_context |-> [error |-> error_msg],
        next |-> "DECISION",
        error |-> error_msg]

WeatherContextOfConditions(region, output, lowered) ==
    [analysis |-> output,
     region |-> region,
     has_rain |-> Contains(lowered, "[rain]"),
     has_heat |-> Contains(lowered, "[hot]"),
     has_cold |-> Contains(lowered, "[cold]"),
     high_impact |-> Contains(output, "HIGH DEMAND") \/ Contains(output, "2.")]

\* the context the Weather stage builds of its output (lowered: output.lower())
WeatherContext(region, output, lowered) ==
    [analysis |-> output,
     region |-> region,
     has_rain |-> Contains(lowered, "rain"),
     has_heat |-> Contains(lowered, "hot") \/ Contains(lowered, "heat"),
     has_cold |-> Contains(lowered, "cold"),
     high_impact |-> Contains(output, "HIGH DEMAND") \/ Contains(output, "2.")]

WeatherReturn(original_query, region, output) ==
    LET needs_decision ==
            ContainsAny(original_query, <<"recommend", "reorder", "order", "action", "what should">>)
    IN [messages |-> <<AIMessage("[Weather Agent]\n" \o output)>>,
        weather_context |-> WeatherContext(region, output, Lower(output)),
        region |-> region,
        next |-> IF needs_decision THEN "DECISION" ELSE "END"]

\* the try block of the Weather stage: two tool invocations
WeatherTry(user_query, region, fault) ==
    IF fault \in 1..2 THEN weather_except(TOOL_FAILURE)
    ELSE WeatherReturn(Lower(user_query), region,
                       get_weather_forecast(region, 7) \o "\n\n" \o get_weather_impact(region, 7))

\* state.get("region") or extract_region_from_query(user_query)
WeatherRegion(state, user_query) ==
    IF Falsy(Get(state, "region", None)) THEN extract_region_from_query(user_query)
    ELSE state.region

WeatherOf(state, user_query, fault) ==
    Ok(WeatherTry(user_query, WeatherRegion(state, user_query), fault))

simple_weather_agent_node(state, fault) == WeatherOf(state, get_user_query(state), fault)

\* the categories looked up in the text as it is, not in inv_analysis.lower()
TITLE_CATEGORIES == <<"Umbrella", "Raincoat", "Summer", "Winter">>

PRIORITY_CATEGORIES == <<"umbrella", "raincoat", "summer", "winter">>
MAX_REORDER_TICKETS == 5

\* the tool invocations of the Decision stage, in order, each with the ticket
\* it appends to _TICKETS and the text it returns; hexes[i] is the uuid4().hex
\* drawn by the i-th invocation
\* sku_matches[-5:]
LimitedFromEnd(sku_matches) ==
    SubSeq(sku_matches, Max(1, Len(sku_matches) - MAX_REORDER_TICKETS + 1), Len(sku_matches))

\* sku_matches[:5]
Limited(sku_matches) == SubSeq(sku_matches, 1, Min(Len(sku_matches), MAX_REORDER_TICKETS))

\* the reorder tickets for the matches limited, then the rain alert and the
\* heat alert
TicketInvocations(limited, weather_driven, region, rain, heat, hexes) ==
    LET priority == IF weather_driven THEN "high" ELSE "medium"
        reason == IF weather_driven THEN "Low stock + weather-driven demand expected"
                  ELSE "Below reorder point"
        n == Len(limited)
    IN [i \in 1..n |->
           create_reorder_ticket(limited[i][1], Prefix(Strip(FirstLine(limited[i][2])), 50),
                                 100, "Default Supplier", reason, priority, hexes[i])]
       \o (IF rain
           THEN <<create_alert_ticket("Umbrellas, Raincoats", "WEATHER_DEMAND_SPIKE", "warning",
                      "Rain expected in " \o region \o " - demand for rain gear may spike 2-3x",
                      "Increase stock of umbrellas and raincoats", hexes[n + 1])>>
           ELSE <<>>)
       \o (IF heat
           THEN <<create_alert_ticket("Summer Wear", "WEATHER_DEMAND_SPIKE", "info",
                      "Hot weather expected in " \o region \o " - summer wear demand increasing",
                      "Monitor summer wear inventory", hexes[n + (IF rain THEN 2 ELSE 1)])>>
           ELSE <<>>)

\* the alerts created outside the check of has_high_weather_impact
InvocationsAlertsUnguarded(inv_analysis, has_low_stock, has_high_weather_impact, weather_context, hexes) ==
    TicketInvocations(
        Limited(IF has_low_stock /\ inv_analysis # "" THEN FindSkus(inv_analysis, 1) ELSE <<>>),
        has_high_weather_impact /\ ContainsAny(Lower(inv_analysis), PRIORITY_CATEGORIES),
        Get(weather_context, "region", "unknown"),
        Get(weather_context, "has_rain", FALSE),
        Get(weather_context, "has_heat", FALSE),
        hexes)

InvocationsFor(inv_analysis, has_low_stock, has_high_weather_impact, weather_context, hexes) ==
    TicketInvocations(
        Limited(IF has_low_stock /\ inv_analysis # "" THEN FindSkus(inv_analysis, 1) ELSE <<>>),
        has_high_weather_impact /\ ContainsAny(Lower(inv_analysis), PRIORITY_CATEGORIES),
        Get(weather_context, "region", "unknown"),
        has_high_weather_impact /\ Get(weather_context, "has_rain", FALSE),
        has_high_weather_impact /\ Get(weather_context, "has_heat", FALSE),
        hexes)

InvocationsOf(inventory_context, weather_context, hexes) ==
    InvocationsFor(Get(inventory_context, "analysis", ""),
                   Get(inventory_context, "has_low_stock", FALSE),
                   Get(weather_context, "high_impact", FALSE),
                   weather_context, hexes)

DecisionInvocations(state, hexes) ==
    InvocationsOf(Get(state, "inventory_context", EmptyDict),
                  Get(state, "weather_context", EmptyDict), hexes)

DecisionOutput(state, tickets_created) ==
    LET has_low_stock == Get(Get(state, "inventory_context", EmptyDict), "has_low_stock", FALSE)
        has_high_weather_impact ==
            Get(Get(state, "weather_context", EmptyDict), "high_impact", FALSE)
        n == Len(tickets_created)
    IN Join("\n",
         <<"## Recommendations Summary\n">>
         \o (IF n > 0
             THEN <<"Created " \o Str(n) \o " tickets:\n">>
                  \o [i \in 1..n |-> Str(i) \o ". " \o Prefix(tickets_created[i], 200) \o "...\n"]
             ELSE <<"No immediate actions required. Inventory levels are healthy.\n">>)
         \o <<"\n## Analysis\n">>
         \o (IF has_low_stock
             THEN <<"- Some items are below reorder point - tickets created\n">> ELSE <<>>)
         \o (IF has_high_weather_impact
             THEN <<"- Weather impact detected - consider adjusting stock levels\n">> ELSE <<>>)
         \o (IF ~has_low_stock /\ ~has_high_weather_impact
             THEN <<"- All systems normal. Continue regular monitoring.\n">> ELSE <<>>))

\* the except clause of the Decision stage
decision_except(e) ==
    LET error_msg == "Error: " \o e
    IN [messages |-> <<AIMessage("[Decision Agent] " \o error_msg)>>,
        recommendations |-> [error |-> error_msg],
        next |-> "END",
        error |-> error_msg]

\* the node's update and the tickets the invoked tools appended to the
\* module-level _TICKETS (those created before a failure stay there)
DecisionResult(state, invocations, fault) ==
    LET n == Len(invocations)
        failed == fault \in 1..n
        done == IF failed THEN fault - 1 ELSE n
        tickets_created == [i \in 1..n |-> invocations[i].result]
        output == DecisionOutput(state, tickets_created)
    IN [appended |-> [i \in 1..done |-> invocations[i].ticket],
        update |-> IF failed THEN decision_except(TOOL_FAILURE)
                   ELSE [messages |-> <<AIMessage("[Decision Agent]\n" \o output)>>,
                         recommendations |-> [analysis |-> output, tickets_created |-> n],
                         tickets |-> tickets_created,
                         next |-> "END"]]

simple_decision_agent_node(state, hexes, fault) ==
    DecisionResult(state, DecisionInvocations(state, hexes), fault)

(***************************************************************************)
(* The routers and the edges of the compiled graph: src/agents/graph.py.   *)
(***************************************************************************)

route_from_start(state) ==
    LET next_agent == Get(state, "next", "DATA")
    IN IF next_agent = "WEATHER" THEN "weather"
       ELSE IF next_agent = "DECISION" THEN "decision"
       ELSE "data"

route_from_data_restart(state) ==
    LET next_agent == Get(state, "next", "END")
    IN IF next_agent = "WEATHER" THEN "weather"
       ELSE IF next_agent = "DECISION" THEN "decision"
       ELSE "start"

route_from_data(state) ==
    LET next_agent == Get(state, "next", "END")
    IN IF next_agent = "WEATHER" THEN "weather"
       ELSE IF next_agent = "DECISION" THEN "decision"
       ELSE "end"

route_from_weather(state) ==
    LET next_agent == Get(state, "next", "DECISION")
    IN IF next_agent = "DECISION" THEN "decision" ELSE "end"

route_from_decision_again(state) == "decision"

\* workflow.add_edge("decision", "end")
route_from_decision(state) == "end"

(***************************************************************************)
(* The environment of a behaviour: how the graph was built, the step       *)
(* limit read from the environment, and the database behind the tools.     *)
(***************************************************************************)

DefaultRecursionLimit == 25
SmallRecursionLimit == 3

UMB == InvRow("UMB_001", "Classic Umbrella", "Umbrellas", 45, 100, 300, 125, 250,
              80, 350, 1, "RainGear Co", 7, 50)
TSH == InvRow("TSH_001", "Cotton T-Shirt", "Summer Wear", 200, 80, 400, 60, 399,
              40, 180, 1, "StyleHub", 5, 100)
ELC == InvRow("ELC_001", "USB Cable", "Electronics", 20, 40, 150, 0, 1499,
              10, 45, 0, "TechSource", 10, 25)
WEATHER_PRODUCTS == <<WpRow("rain", "Umbrellas", 25), WpRow("hot", "Summer Wear", 18)>>

\* a seeded database with items below their reorder point
DB_LOW == [mode |-> "ok", inventory |-> <<UMB, TSH, ELC>>, weather_products |-> WEATHER_PRODUCTS]
\* a seeded database with every item above its reorder point
DB_STOCKED == [mode |-> "ok", inventory |-> <<TSH>>, weather_products |-> WEATHER_PRODUCTS]
\* a database without its tables: every query fails
DB_NOSCHEMA == [mode |-> "noschema", inventory |-> <<>>, weather_products |-> <<>>]
\* a database file that cannot be opened
DB_UNREACHABLE == [mode |-> "unreachable", inventory |-> <<>>, weather_products |-> <<>>]

Env(use_memory, limit, db) == [use_memory |-> use_memory, RECURSION_LIMIT |-> limit, db |-> db]

ENVS == {Env(FALSE, DefaultRecursionLimit, DB_LOW),
         Env(TRUE, DefaultRecursionLimit, DB_LOW),
         Env(FALSE, SmallRecursionLimit, DB_LOW),
         Env(TRUE, SmallRecursionLimit, DB_LOW),
         Env(FALSE, DefaultRecursionLimit, DB_STOCKED),
         Env(FALSE, DefaultRecursionLimit, DB_NOSCHEMA),
         Env(FALSE, DefaultRecursionLimit, DB_UNREACHABLE)}

\* the requests of the runs
QUERIES == {"What items are low on stock?",
            "How will weather affect umbrella sales in Mumbai?",
            "Generate reorder recommendations for next week",
            "Weather forecast for Delhi and what should I reorder?",
            "Create a purchase ticket for umbrellas",
            "SHOW RAINCOAT STOCK"}

\* the conversation ids and the regions a caller passes ("" for none)
THREADS == {"main"}
REGIONS == {"", "bengaluru"}

MaxRuns == 2
MaxFault == 2

(***************************************************************************)
(* uuid4().hex: the draws of one stage execution are either all fresh or   *)
(* all the same value.                                                     *)
(***************************************************************************)

HEX == "0123456789abcdef"

RECURSIVE HexDigits(_, _)
HexDigits(n, width) ==
    IF width = 0 THEN ""
    ELSE HexDigits(n \div 16, width - 1) \o SubSeq(HEX, (n % 16) + 1, (n % 16) + 1)

uuid4_hex(n) == HexDigits(n, 8) \o "9c1b4e0d8a6f4b7c8d5e3f2a"

Uuid4Draws(k) ==
    {[i \in 1..(MAX_REORDER_TICKETS + 2) |-> uuid4_hex(k + i)],
     [i \in 1..(MAX_REORDER_TICKETS + 2) |-> uuid4_hex(0)]}

(***************************************************************************)
(* The state: the channels of the graph run in progress, the node about to *)
(* execute, the steps taken, the checkpoints of the memory saver, the      *)
(* module-level ticket list and the value run_query last returned.         *)
(***************************************************************************)

VARIABLES env, state, node, steps, checkpoint, _TICKETS, result, run, trace, runs, returned

vars == <<env, state, node, steps, checkpoint, _TICKETS, result, run, trace, runs, returned>>

NODES == {"start", "data", "weather", "decision", "end"}

\* channels in which error lasts for one step only
MergeClearing(channels, update) ==
    [k \in (DOMAIN channels) \cup (DOMAIN update) |->
        IF k \notin DOMAIN update THEN (IF k = "error" THEN None ELSE channels[k])
        ELSE IF k = "messages" /\ k \in DOMAIN channels THEN channels[k] \o update[k]
        ELSE update[k]]

\* a node's update applied to the channels: messages is reduced with
\* operator.add, every other key is overwritten
Merge(channels, update) ==
    [k \in (DOMAIN channels) \cup (DOMAIN update) |->
        IF k \notin DOMAIN update THEN channels[k]
        ELSE IF k = "messages" /\ k \in DOMAIN channels THEN channels[k] \o update[k]
        ELSE update[k]]

\* the memory saver keeps the channels of a thread after every step
Save(thread_id, channels) ==
    IF env.use_memory
    THEN [t \in (DOMAIN checkpoint) \cup {thread_id} |->
             IF t = thread_id THEN channels ELSE checkpoint[t]]
    ELSE checkpoint

Init ==
    /\ env \in ENVS
    /\ state = EmptyDict
    /\ node = "idle"
    /\ steps = 0
    /\ checkpoint = EmptyDict
    /\ _TICKETS = <<>>
    /\ result = EmptyDict
    /\ run = EmptyDict
    /\ trace = <<>>
    /\ runs = 0
    /\ returned = <<>>

(***************************************************************************)
(* run_query of src/agents/graph.py: graph.invoke executes one node per    *)
(* step.  With a checkpointer the input of a run is applied as an update   *)
(* to the channels saved for the thread; an exception that leaves a node,  *)
(* and the GraphRecursionError raised when another step would exceed       *)
(* recursion_limit, reach the except clause of run_query.                  *)
(***************************************************************************)

RunQuery(query, thread_id, region) ==
    /\ node = "idle"
    /\ runs < MaxRuns
    /\ LET created == create_initial_state(query)
           initial_state == IF region # "" THEN [created EXCEPT !.region = region] ELSE created
           input == IF thread_id \in DOMAIN checkpoint
                    THEN Merge(checkpoint[thread_id], initial_state)
                    ELSE initial_state
       IN /\ state' = input
          /\ checkpoint' = Save(thread_id, input)
    /\ node' = "start"
    /\ steps' = 0
    /\ result' = EmptyDict
    /\ run' = [query |-> query, thread_id |-> thread_id, region |-> region]
    /\ trace' = <<>>
    /\ runs' = runs + 1
    /\ returned' = <<>>
    /\ UNCHANGED <<env, _TICKETS>>

\* a node returned its update: the channels are updated and saved, and the
\* router of the node names the node of the next step
StepOk(n, update, to) ==
    /\ state' = Merge(state, update)
    /\ checkpoint' = Save(run.thread_id, Merge(state, update))
    /\ node' = to
    /\ steps' = steps + 1
    /\ trace' = Append(trace, n)
    /\ UNCHANGED <<env, result, run, runs, returned>>

ExceptPropagated(msg) ==
    /\ node' = "raised"
    /\ UNCHANGED <<env, state, steps, checkpoint, run, runs, result, returned>>

\* an exception left graph.invoke: run_query returns the error result
Except(msg) ==
    /\ result' = [error |-> msg, query |-> run.query]
    /\ node' = "idle"
    /\ UNCHANGED <<env, state, steps, checkpoint, run, runs, returned>>

\* the edges of build_graph: the router of node n applied to the channels
Route(n, channels) ==
    CASE n = "start" -> route_from_start(channels)
      [] n = "data" -> route_from_data(channels)
      [] n = "weather" -> route_from_weather(channels)
      [] n = "decision" -> route_from_decision(channels)

\* node n was executed with outcome out: it returned its update, or raised
Executed(n, out) ==
    IF out.ok
    THEN StepOk(n, out.val, Route(n, Merge(state, out.val)))
    ELSE Except(out.err) /\ trace' = Append(trace, n)

Start ==
    /\ node = "start"
    /\ steps < env.RECURSION_LIMIT
    /\ Executed("start", start_node(state, env.db))
    /\ UNCHANGED _TICKETS

Data ==
    /\ node = "data"
    /\ steps < env.RECURSION_LIMIT
    /\ \E fault \in 0..MaxFault :
         Executed("data", simple_data_agent_node(state, env.db, fault))
    /\ UNCHANGED _TICKETS

Weather ==
    /\ node = "weather"
    /\ steps < env.RECURSION_LIMIT
    /\ \E fault \in 0..MaxFault :
         Executed("weather", simple_weather_agent_node(state, fault))
    /\ UNCHANGED _TICKETS

\* the Decision stage was executed: out.appended are the tickets its tools
\* appended to _TICKETS
DecisionExecuted(out) ==
    /\ Executed("decision", Ok(out.update))
    /\ _TICKETS' = _TICKETS \o out.appended

Decision ==
    /\ node = "decision"
    /\ steps < env.RECURSION_LIMIT
    /\ \E fault \in 0..MaxFault, hexes \in Uuid4Draws(Len(_TICKETS)) :
         DecisionExecuted(simple_decision_agent_node(state, hexes, fault))

\* the finish point: graph.invoke returns the channels
End ==
    /\ node = "end"
    /\ steps < env.RECURSION_LIMIT
    /\ state' = Merge(state, end_node(state).val)
    /\ checkpoint' = Save(run.thread_id, state)
    /\ result' = state
    /\ node' = "idle"
    /\ steps' = steps + 1
    /\ trace' = Append(trace, "end")
    /\ UNCHANGED <<env, _TICKETS, run, runs, returned>>

\* the message of langgraph's GraphRecursionError (its backquotes written as ')
GraphRecursionError(limit) ==
    "Recursion limit of " \o Str(limit) \o " reached without hitting a stop condition. "
    \o "You can increase the limit by setting the 'recursion_limit' config key."

RecursionLimit ==
    /\ node \in NODES
    /\ steps >= env.RECURSION_LIMIT
    /\ Except(GraphRecursionError(env.RECURSION_LIMIT))
    /\ UNCHANGED <<_TICKETS, trace>>

\* get_final_response of src/agents/graph.py: the content of every message
\* of the record that has one, then the analysis of the recommendations
\* under its heading, joined by the separator
get_final_response(record) ==
    LET messages == Get(record, "messages", <<>>)
        contents == [i \in 1..Len(messages) |-> messages[i].content]
        recommendations == Get(record, "recommendations", EmptyDict)
        analysis == Get(recommendations, "analysis", "")
    IN Join("\n\n---\n\n",
            SelectSeq(contents, LAMBDA c : c # "")
            \o (IF analysis # "" THEN <<"\n## Recommendations\n" \o analysis>> ELSE <<>>))

MaxResponses == 2

\* a compiler that takes the messages out of the record as it reads them
GetFinalResponseConsuming ==
    /\ node = "idle"
    /\ runs > 0
    /\ Falsy(Get(result, "error", None))
    /\ Len(returned) < MaxResponses
    /\ returned' = Append(returned, get_final_response(result))
    /\ result' = [result EXCEPT !.messages = <<>>]
    /\ UNCHANGED <<env, state, node, steps, checkpoint, _TICKETS, run, trace, runs>>

\* the caller of run_query compiles the response of a result without error
\* (the test section of graph.py, process_query of app.py); returned holds
\* the texts it got since the run started
GetFinalResponse ==
    /\ node = "idle"
    /\ runs > 0
    /\ Falsy(Get(result, "error", None))
    /\ Len(returned) < MaxResponses
    /\ returned' = Append(returned, get_final_response(result))
    /\ UNCHANGED <<env, state, node, steps, checkpoint, _TICKETS, result, run, trace, runs>>

Step == Start \/ Data \/ Weather \/ Decision \/ End \/ RecursionLimit

Next ==
    \/ \E query \in QUERIES, thread_id \in THREADS, region \in REGIONS :
           RunQuery(query, thread_id, region)
    \/ Start
    \/ Data
    \/ Weather
    \/ Decision
    \/ End
    \/ RecursionLimit
    \/ GetFinalResponse

Spec == Init /\ [][Next]_vars

(***************************************************************************)
(* The stages called directly, as the modules' own test sections do: a     *)
(* record is created for a request and a stage is applied to it; the       *)
(* caller keeps the returned update in the record.                         *)
(***************************************************************************)

STAGE_QUERIES ==
    QUERIES \cup {"Show umbrella inventory and rain gear",
                  "Sales forecast and reorder plan",
                  "Demand forecast for electronics",
                  "Recommend actions for winter items",
                  "Is it hot or cold in Chennai, what should we stock?",
                  "Should I purchase more raincoats?",
                  "Monsoon climate temperature outlook",
                  "Place an ORDER for Kolkata",
                  "Weather in Bangalore this week",
                  "Compare the climate of Hyderabad and Delhi",
                  ""}

STAGE_ENVS == {e \in ENVS : ~e.use_memory /\ e.RECURSION_LIMIT = DefaultRecursionLimit}

MaxCalls == 2

StageInit ==
    /\ env \in STAGE_ENVS
    /\ \E query \in STAGE_QUERIES, region \in REGIONS :
          /\ state = [create_initial_state(query) EXCEPT !.region = region]
          /\ run = [query |-> query, thread_id |-> "", region |-> region]
    /\ node = "direct"
    /\ steps = 0
    /\ checkpoint = EmptyDict
    /\ _TICKETS = <<>>
    /\ result = EmptyDict
    /\ trace = <<>>
    /\ runs = 0
    /\ returned = <<>>

\* the stage returned: its update is kept; it raised: the caller sees the error
Called(n, out) ==
    /\ Len(trace) < MaxCalls
    /\ node = "direct"
    /\ trace' = Append(trace, n)
    /\ steps' = steps + 1
    /\ IF out.ok
       THEN state' = Merge(state, out.val) /\ UNCHANGED <<result, node>>
       ELSE result' = [error |-> out.err, query |-> run.query] /\ node' = "raised"
            /\ UNCHANGED state
    /\ UNCHANGED <<env, checkpoint, run, runs, returned>>

CallStart == Called("start", start_node(state, env.db)) /\ UNCHANGED _TICKETS

CallData ==
    /\ \E fault \in 0..MaxFault : Called("data", simple_data_agent_node(state, env.db, fault))
    /\ UNCHANGED _TICKETS

CallWeather ==
    /\ \E fault \in 0..MaxFault : Called("weather", simple_weather_agent_node(state, fault))
    /\ UNCHANGED _TICKETS

DecisionCalled(out) ==
    /\ Called("decision", Ok(out.update))
    /\ _TICKETS' = _TICKETS \o out.appended

CallDecision ==
    \E fault \in 0..MaxFault, hexes \in Uuid4Draws(Len(_TICKETS)) :
       DecisionCalled(simple_decision_agent_node(state, hexes, fault))

StageNext == CallStart \/ CallData \/ CallWeather \/ CallDecision

StageSpec == StageInit /\ [][StageNext]_vars

(***************************************************************************)
(* The Decision stage called on a record with mock context, as the test    *)
(* section of src/agents/decision_agent.py does.  Each analysis text comes *)
(* with the list re.findall returns for it and with the identifier and     *)
(* name of the reorder tickets the stage creates from it, and with whether *)
(* the text names one of the four weather-sensitive categories in any      *)
(* case, written out by hand.                                              *)
(***************************************************************************)

ANALYSES ==
   {[analysis |-> "All items are well stocked.",
     names_category |-> FALSE,
     findall |-> <<>>,
     reorders |-> <<>>],
    [analysis |-> "UMB_001: Classic Umbrella - LOW STOCK (45 units, reorder at 100)",
     names_category |-> TRUE,
     findall |-> << <<"UMB_001", "Classic Umbrella - LOW STOCK (45 units, reorder at 100)">> >>,
     reorders |-> << <<"UMB_001", "Classic Umbrella - LOW STOCK (45 units, reorder at">> >>],
    [analysis |-> "## Low Stock Items\n- UMB_001: Classic Umbrella\n- RNC_002: Raincoat Deluxe\n- TSH_003: Summer T-Shirt\n- JKT_004: Winter Jacket\n- ELC_005: Phone Charger",
     names_category |-> TRUE,
     findall |-> << <<"UMB_001", "Classic Umbrella">>, <<"RNC_002", "Raincoat Deluxe">>, <<"TSH_003", "Summer T-Shirt">>, <<"JKT_004", "Winter Jacket">>, <<"ELC_005", "Phone Charger">> >>,
     reorders |-> << <<"UMB_001", "Classic Umbrella">>, <<"RNC_002", "Raincoat Deluxe">>, <<"TSH_003", "Summer T-Shirt">>, <<"JKT_004", "Winter Jacket">>, <<"ELC_005", "Phone Charger">> >>],
    [analysis |-> "ELC_001: Phone Charger\nELC_002: USB Cable\nELC_003: Power Bank\nELC_004: Headphones\nELC_005: Laptop Stand\nELC_006: Webcam",
     names_category |-> FALSE,
     findall |-> << <<"ELC_001", "Phone Charger">>, <<"ELC_002", "USB Cable">>, <<"ELC_003", "Power Bank">>, <<"ELC_004", "Headphones">>, <<"ELC_005", "Laptop Stand">>, <<"ELC_006", "Webcam">> >>,
     reorders |-> << <<"ELC_001", "Phone Charger">>, <<"ELC_002", "USB Cable">>, <<"ELC_003", "Power Bank">>, <<"ELC_004", "Headphones">>, <<"ELC_005", "Laptop Stand">> >>],
    [analysis |-> "low stock\nelc_1: lower case\nSKU-2: dash\nTSH_3 : space before colon\nabELC_4:   Padded Desk Lamp  \nELC_5:\nWrapped Line\nELC_: no digits\n_6: no letters",
     names_category |-> FALSE,
     findall |-> << <<"ELC_4", "Padded Desk Lamp  ">>, <<"ELC_5", "Wrapped Line">> >>,
     reorders |-> << <<"ELC_4", "Padded Desk Lamp">>, <<"ELC_5", "Wrapped Line">> >>],
    [analysis |-> "ELC_010: A desk lamp with a very long product description that goes past fifty characters\nTSH_011: FOLDING UMBRELLA",
     names_category |-> TRUE,
     findall |-> << <<"ELC_010", "A desk lamp with a very long product description that goes past fifty characters">>, <<"TSH_011", "FOLDING UMBRELLA">> >>,
     reorders |-> << <<"ELC_010", "A desk lamp with a very long product description t">>, <<"TSH_011", "FOLDING UMBRELLA">> >>],
    [analysis |-> "LOW STOCK REPORT\nA_1: a\nB_2: b\nC_3: c\nD_4: d\nE_5: e\nF_6: f\nG_7: g",
     names_category |-> FALSE,
     findall |-> << <<"A_1", "a">>, <<"B_2", "b">>, <<"C_3", "c">>, <<"D_4", "d">>, <<"E_5", "e">>, <<"F_6", "f">>, <<"G_7", "g">> >>,
     reorders |-> << <<"A_1", "a">>, <<"B_2", "b">>, <<"C_3", "c">>, <<"D_4", "d">>, <<"E_5", "e">> >>]}

MockState(analysis, has_low_stock, high_impact, has_rain, has_heat) ==
    [create_initial_state("Generate reorder recommendations") EXCEPT
        !.inventory_context = [analysis |-> analysis,
                               has_low_stock |-> has_low_stock,
                               has_weather_items |-> TRUE],
        !.weather_context = [analysis |-> "Rain expected next 3 days, HIGH DEMAND for umbrellas",
                             region |-> "mumbai",
                             has_rain |-> has_rain,
                             has_heat |-> has_heat,
                             high_impact |-> high_impact]]

DecisionTestInit ==
    /\ env = Env(FALSE, DefaultRecursionLimit, DB_LOW)
    /\ \E a \in ANALYSES, has_low_stock, high_impact, has_rain, has_heat \in BOOLEAN :
          state = MockState(a.analysis, has_low_stock, high_impact, has_rain, has_heat)
    /\ run = [query |-> "Generate reorder recommendations", thread_id |-> "", region |-> ""]
    /\ node = "direct"
    /\ steps = 0
    /\ checkpoint = EmptyDict
    /\ _TICKETS = <<>>
    /\ result = EmptyDict
    /\ trace = <<>>
    /\ runs = 0
    /\ returned = <<>>

DecisionTestSpec == DecisionTestInit /\ [][CallDecision]_vars

(***************************************************************************)
(* The ticket tools of src/tools/ticket_tools.py called directly, one     *)
(* after the other, together with the Decision stage that invokes them;    *)
(* trace keeps the names of the functions called and returned the texts    *)
(* the tools returned.                                                     *)
(***************************************************************************)

MaxToolCalls == 3

TicketToolsInit ==
    /\ env = Env(FALSE, DefaultRecursionLimit, DB_LOW)
    /\ state = MockState("UMB_001: Classic Umbrella - LOW STOCK (45 units, reorder at 100)",
                         TRUE, TRUE, TRUE, FALSE)
    /\ run = [query |-> "Generate reorder recommendations", thread_id |-> "", region |-> ""]
    /\ node = "direct"
    /\ steps = 0
    /\ checkpoint = EmptyDict
    /\ _TICKETS = <<>>
    /\ result = EmptyDict
    /\ trace = <<>>
    /\ runs = 0
    /\ returned = <<>>

ToolCalled(name) ==
    /\ node = "direct"
    /\ Len(trace) < MaxToolCalls
    /\ trace' = Append(trace, name)
    /\ steps' = steps + 1
    /\ UNCHANGED <<env, state, node, checkpoint, result, run, runs>>

\* the tool appended its ticket and returned its text
TicketCreated(name, out) ==
    /\ ToolCalled(name)
    /\ _TICKETS' = Append(_TICKETS, out.ticket)
    /\ returned' = Append(returned, out.result)

\* the uuid4().hex of a direct call: a fresh value, or one that starts as an
\* earlier one did
Uuid4Draw(k) == {uuid4_hex(k + 1), uuid4_hex(0)}

CreateReorderTicket ==
    \E priority \in {"medium", "urgent"}, hex \in Uuid4Draw(Len(_TICKETS)) :
       TicketCreated("create_reorder_ticket",
                     create_reorder_ticket("UMB_001", "Classic Umbrella", 255, "RainGear Co",
                                           "Below reorder point", priority, hex))

CreateAlertTicket ==
    \E severity \in {"warning", "critical"}, hex \in Uuid4Draw(Len(_TICKETS)) :
       TicketCreated("create_alert_ticket",
                     create_alert_ticket("Umbrellas", "LOW_STOCK", severity,
                                         "Classic Umbrella is below its reorder point",
                                         "Reorder 255 units", hex))

GetPendingTickets ==
    /\ ToolCalled("get_pending_tickets")
    /\ returned' = Append(returned, get_pending_tickets(_TICKETS))
    /\ UNCHANGED _TICKETS

ClearTickets ==
    /\ ToolCalled("clear_tickets")
    /\ _TICKETS' = <<>>
    /\ UNCHANGED returned

TicketToolsNext ==
    \/ CallDecision
    \/ CreateReorderTicket
    \/ CreateAlertTicket
    \/ GetPendingTickets
    \/ ClearTickets

TicketToolsSpec == TicketToolsInit /\ [][TicketToolsNext]_vars

(***************************************************************************)
(* run_query of src/database/db.py called directly with statements of a    *)
(* caller's choice; run holds the statement and result what the call       *)
(* returned or raised, and the store of env is what the statement left.    *)
(***************************************************************************)

DB_QUERIES ==
    {LOW_STOCK_SQL, WEATHER_SENSITIVE_SQL, COUNT_SQL, WITH_DELETE_SQL, TWO_STATEMENTS_SQL,
     "DELETE FROM inventory", "drop table inventory",
     "UPDATE inventory SET units_on_hand = 0", ""}

MaxQueries == 3

DbInit ==
    /\ env \in ENVS
    /\ state = EmptyDict
    /\ node = "direct"
    /\ steps = 0
    /\ checkpoint = EmptyDict
    /\ _TICKETS = <<>>
    /\ result = EmptyDict
    /\ run = EmptyDict
    /\ trace = <<>>
    /\ runs = 0
    /\ returned = <<>>

DbRunQuery ==
    /\ node = "direct"
    /\ Len(trace) < MaxQueries
    /\ \E query \in DB_QUERIES :
          /\ run' = [query |-> query]
          /\ result' = run_query(env.db, query, <<>>)
          /\ env' = [env EXCEPT !.db = StoreAfterQuery(env.db, query)]
    /\ trace' = Append(trace, "run_query")
    /\ steps' = steps + 1
    /\ UNCHANGED <<state, node, checkpoint, _TICKETS, runs, returned>>

DbSpec == DbInit /\ [][DbRunQuery]_vars

(***************************************************************************)
(* Two runs in two threads of one process, each in its Decision stage,     *)
(* sharing the module-level _TICKETS.  A step is one tool invocation of    *)
(* one run: list.append is atomic, so the invocations of the two runs      *)
(* interleave ticket by ticket.  In this specification state, node, steps  *)
(* and result are kept per run: the record, the position, the number of    *)
(* tool invocations done and the local list tickets_created; checkpoint    *)
(* holds the uuid4 values each run draws, and trace the run that appended  *)
(* each ticket of the log.                                                 *)
(***************************************************************************)

RUNS == {1, 2}

ConcurrentInit ==
    /\ env = Env(FALSE, DefaultRecursionLimit, DB_LOW)
    /\ \E heat \in BOOLEAN :
          state = [r \in RUNS |->
                     MockState(IF r = 1
                               THEN "UMB_001: Classic Umbrella - LOW STOCK (45 units, reorder at 100)"
                               ELSE "ELC_001: USB Cable\nTSH_001: Cotton T-Shirt",
                               TRUE, TRUE, r = 1, heat)]
    /\ \E draws \in Uuid4Draws(MAX_REORDER_TICKETS + 2) :
          checkpoint = [r \in RUNS |-> IF r = 1 THEN [i \in DOMAIN draws |-> uuid4_hex(i)]
                                       ELSE draws]
    /\ node = [r \in RUNS |-> "decision"]
    /\ steps = [r \in RUNS |-> 0]
    /\ result = [r \in RUNS |-> <<>>]
    /\ run = [query |-> "Generate reorder recommendations", thread_id |-> "", region |-> ""]
    /\ _TICKETS = <<>>
    /\ trace = <<>>
    /\ runs = 2
    /\ returned = <<>>

\* the tool invocations of run r, in order
InvocationsIn(r) == DecisionInvocations(state[r], checkpoint[r])

\* the next tool invocation of run r appends its ticket and returns its text
InvokeTool(r) ==
    /\ node[r] = "decision"
    /\ steps[r] < Len(InvocationsIn(r))
    /\ _TICKETS' = Append(_TICKETS, InvocationsIn(r)[steps[r] + 1].ticket)
    /\ result' = [result EXCEPT ![r] = Append(@, InvocationsIn(r)[steps[r] + 1].result)]
    /\ steps' = [steps EXCEPT ![r] = @ + 1]
    /\ trace' = Append(trace, r)
    /\ UNCHANGED <<env, state, node, checkpoint, run, runs, returned>>

\* the next tool invocation of run r raises: the except clause of the stage
ToolRaises(r) ==
    /\ node[r] = "decision"
    /\ steps[r] < Len(InvocationsIn(r))
    /\ state' = [state EXCEPT ![r] = Merge(@, decision_except(TOOL_FAILURE))]
    /\ node' = [node EXCEPT ![r] = "end"]
    /\ UNCHANGED <<env, steps, checkpoint, _TICKETS, result, run, trace, runs, returned>>

\* all invocations of run r are done: the stage returns its update
DecisionReturns(r) ==
    /\ node[r] = "decision"
    /\ steps[r] = Len(InvocationsIn(r))
    /\ state' = [state EXCEPT ![r] = Merge(@, DecisionResult(@, InvocationsIn(r), 0).update)]
    /\ node' = [node EXCEPT ![r] = "end"]
    /\ UNCHANGED <<env, steps, checkpoint, _TICKETS, result, run, trace, runs, returned>>

ConcurrentNext ==
    \/ \E r \in RUNS : InvokeTool(r)
    \/ \E r \in RUNS : ToolRaises(r)
    \/ \E r \in RUNS : DecisionReturns(r)

ConcurrentSpec == ConcurrentInit /\ [][ConcurrentNext]_vars

(***************************************************************************)
(* The routing-response parser of the supervisor (src/agents/supervisor.py) *)
(* applied to response texts.  The three-backquote code fence of the       *)
(* source is written ''' here; no response text of the model holds an      *)
(* apostrophe of its own.                                                  *)
(***************************************************************************)

VALID_ROUTES == {"DATA", "WEATHER", "DECISION", "END"}

FENCE == "'''"

FENCE_JSON == FENCE \o "json"

\* str.find, counted from 1: the least index where k occurs in t, 0 if none
Find(t, k) ==
    LET at == {i \in 1..(Len(t) - Len(k) + 1) : SubSeq(t, i, i + Len(k) - 1) = k}
    IN IF at = {} THEN 0 ELSE CHOOSE i \in at : \A j \in at : i <= j

\* t.split(sep)[0]
BeforeFirst(t, sep) == IF Find(t, sep) = 0 THEN t ELSE SubSeq(t, 1, Find(t, sep) - 1)

\* sep.join(t.split(sep)[1:]), for a text that holds sep
AfterFirst(t, sep) == SubSeq(t, Find(t, sep) + Len(sep), Len(t))

\* text.split(open)[1].split(FENCE)[0].strip(): the second piece of the split
\* ends at the next occurrence of open, and every occurrence of open starts
\* with FENCE, so that the piece is cut at the first FENCE after the opening
FencedBlock(text, open) == Strip(BeforeFirst(AfterFirst(text, open), FENCE))

\* re.search(r'\{[^}]+\}', text): the leftmost { that has at least one
\* character before the next }, with everything up to that }; "" stands
\* for no match (a match is never empty)
BraceMatch(text) ==
    LET closing(i) == {j \in (i + 1)..Len(text) : SubSeq(text, j, j) = "}"}
        first(i) == CHOOSE j \in closing(i) : \A k \in closing(i) : j <= k
        opening == {i \in 1..Len(text) : /\ SubSeq(text, i, i) = "{"
                                         /\ closing(i) # {}
                                         /\ first(i) > i + 1}
    IN IF opening = {} THEN ""
       ELSE LET i == CHOOSE i \in opening : \A k \in opening : i <= k
            IN SubSeq(text, i, first(i))

\* the text handed to json.loads: lines 89-100 of the function
ExtractJson(response) ==
    LET stripped == Strip(response)
        text == IF Contains(stripped, FENCE_JSON) THEN FencedBlock(stripped, FENCE_JSON)
                ELSE IF Contains(stripped, FENCE) THEN FencedBlock(stripped, FENCE)
                ELSE stripped
    IN IF BraceMatch(text) # "" THEN BraceMatch(text) ELSE text

\* the texts handed to json.loads and their values
JSON_LOADS ==
    {[text |-> "{\"next\": \"DATA\", \"reason\": \"inventory question\"}",
      value |-> [type |-> "dict", fields |-> ("next" :> [type |-> "str", str |-> "DATA"] @@ "reason" :> [type |-> "str", str |-> "inventory question"])]],
     [text |-> "{\"next\": \"weather\", \"reason\": \"forecast\"}",
      value |-> [type |-> "dict", fields |-> ("next" :> [type |-> "str", str |-> "weather"] @@ "reason" :> [type |-> "str", str |-> "forecast"])]],
     [text |-> "{\"next\": \"Decision\"}",
      value |-> [type |-> "dict", fields |-> ("next" :> [type |-> "str", str |-> "Decision"])]],
     [text |-> "{\"next\": \"END\", \"reason\": \"done\"}",
      value |-> [type |-> "dict", fields |-> ("next" :> [type |-> "str", str |-> "END"] @@ "reason" :> [type |-> "str", str |-> "done"])]],
     [text |-> "{\"next\": \"SUPERVISOR\", \"reason\": \"loop\"}",
      value |-> [type |-> "dict", fields |-> ("next" :> [type |-> "str", str |-> "SUPERVISOR"] @@ "reason" :> [type |-> "str", str |-> "loop"])]],
     [text |-> "{\"reason\": \"no route\"}",
      value |-> [type |-> "dict", fields |-> ("reason" :> [type |-> "str", str |-> "no route"])]],
     [text |-> "{\"next\": \"END\"}",
      value |-> [type |-> "dict", fields |-> ("next" :> [type |-> "str", str |-> "END"])]],
     [text |-> "{\"next\": \"WEATHER\", \"reason\": \"rain\"}",
      value |-> [type |-> "dict", fields |-> ("next" :> [type |-> "str", str |-> "WEATHER"] @@ "reason" :> [type |-> "str", str |-> "rain"])]],
     [text |-> "{\"next\": \"DECISION\"}",
      value |-> [type |-> "dict", fields |-> ("next" :> [type |-> "str", str |-> "DECISION"])]],
     [text |-> "{\"next\": \"END\", \"reason\": \"ok\"}",
      value |-> [type |-> "dict", fields |-> ("next" :> [type |-> "str", str |-> "END"] @@ "reason" :> [type |-> "str", str |-> "ok"])]],
     [text |-> "{\"next\": \"end\"}",
      value |-> [type |-> "dict", fields |-> ("next" :> [type |-> "str", str |-> "end"])]],
     [text |-> "{}",
      value |-> [type |-> "dict", fields |-> EmptyDict]],
     [text |-> "Finish: END",
      value |-> [type |-> "JSONDecodeError"]],
     [text |-> "Check the WEATHER and then END",
      value |-> [type |-> "JSONDecodeError"]],
     [text |-> "WEATHER first",
      value |-> [type |-> "JSONDecodeError"]],
     [text |-> "weather then decision",
      value |-> [type |-> "JSONDecodeError"]],
     [text |-> "a decision is needed",
      value |-> [type |-> "JSONDecodeError"]],
     [text |-> "no idea",
      value |-> [type |-> "JSONDecodeError"]],
     [text |-> "",
      value |-> [type |-> "JSONDecodeError"]],
     [text |-> "WEEKEND sale",
      value |-> [type |-> "JSONDecodeError"]],
     [text |-> "42",
      value |-> [type |-> "int"]],
     [text |-> "\"END\"",
      value |-> [type |-> "str", str |-> "END"]],
     [text |-> "\"next\"",
      value |-> [type |-> "str", str |-> "next"]],
     [text |-> "null",
      value |-> [type |-> "NoneType"]],
     [text |-> "true",
      value |-> [type |-> "bool"]],
     [text |-> "NaN",
      value |-> [type |-> "float"]],
     [text |-> "[\"END\"]",
      value |-> [type |-> "list", items |-> <<[type |-> "str", str |-> "END"]>>]],
     [text |-> "{\"next\": 5}",
      value |-> [type |-> "dict", fields |-> ("next" :> [type |-> "int"])]],
     [text |-> "{\"next\": null, \"reason\": \"none\"}",
      value |-> [type |-> "dict", fields |-> ("next" :> [type |-> "NoneType"] @@ "reason" :> [type |-> "str", str |-> "none"])]],
     [text |-> "{\"next\": [\"END\"]}",
      value |-> [type |-> "dict", fields |-> ("next" :> [type |-> "list", items |-> <<[type |-> "str", str |-> "END"]>>])]],
     [text |-> "{\"meta\": {\"x\": 1}",
      value |-> [type |-> "JSONDecodeError"]],
     [text |-> "{\"next\": \"END\", \"meta\": {\"a\": 1}",
      value |-> [type |-> "JSONDecodeError"]],
     [text |-> "{not json}",
      value |-> [type |-> "JSONDecodeError"]]}

\* the response texts: each with the text that the function hands to
\* json.loads and with what the function returns or raises when it is run
\* on the response
RESPONSES ==
    {[response |-> "{\"next\": \"DATA\", \"reason\": \"inventory question\"}",
      extracted |-> "{\"next\": \"DATA\", \"reason\": \"inventory question\"}",
      returns |-> [ok |-> TRUE, val |-> [next |-> "DATA", reason |-> "inventory question"]]],
     [response |-> "{\"next\": \"weather\", \"reason\": \"forecast\"}",
      extracted |-> "{\"next\": \"weather\", \"reason\": \"forecast\"}",
      returns |-> [ok |-> TRUE, val |-> [next |-> "WEATHER", reason |-> "forecast"]]],
     [response |-> "{\"next\": \"Decision\"}",
      extracted |-> "{\"next\": \"Decision\"}",
      returns |-> [ok |-> TRUE, val |-> [next |-> "DECISION", reason |-> "No reason provided"]]],
     [response |-> "{\"next\": \"END\", \"reason\": \"done\"}",
      extracted |-> "{\"next\": \"END\", \"reason\": \"done\"}",
      returns |-> [ok |-> TRUE, val |-> [next |-> "END", reason |-> "done"]]],
     [response |-> "{\"next\": \"SUPERVISOR\", \"reason\": \"loop\"}",
      extracted |-> "{\"next\": \"SUPERVISOR\", \"reason\": \"loop\"}",
      returns |-> [ok |-> TRUE, val |-> [next |-> "DATA", reason |-> "loop"]]],
     [response |-> "{\"reason\": \"no route\"}",
      extracted |-> "{\"reason\": \"no route\"}",
      returns |-> [ok |-> TRUE, val |-> [next |-> "DATA", reason |-> "no route"]]],
     [response |-> "  {\"next\": \"END\"}  \n",
      extracted |-> "{\"next\": \"END\"}",
      returns |-> [ok |-> TRUE, val |-> [next |-> "END", reason |-> "No reason provided"]]],
     [response |-> "'''json\n{\"next\": \"WEATHER\", \"reason\": \"rain\"}\n'''",
      extracted |-> "{\"next\": \"WEATHER\", \"reason\": \"rain\"}",
      returns |-> [ok |-> TRUE, val |-> [next |-> "WEATHER", reason |-> "rain"]]],
     [response |-> "Here you go:\n'''\n{\"next\": \"DECISION\"}\n'''\nThanks",
      extracted |-> "{\"next\": \"DECISION\"}",
      returns |-> [ok |-> TRUE, val |-> [next |-> "DECISION", reason |-> "No reason provided"]]],
     [response |-> "The answer is {\"next\": \"END\", \"reason\": \"ok\"} as requested",
      extracted |-> "{\"next\": \"END\", \"reason\": \"ok\"}",
      returns |-> [ok |-> TRUE, val |-> [next |-> "END", reason |-> "ok"]]],
     [response |-> "{\"next\": \"end\"} {\"next\": \"DATA\"}",
      extracted |-> "{\"next\": \"end\"}",
      returns |-> [ok |-> TRUE, val |-> [next |-> "END", reason |-> "No reason provided"]]],
     [response |-> "{}",
      extracted |-> "{}",
      returns |-> [ok |-> TRUE, val |-> [next |-> "DATA", reason |-> "No reason provided"]]],
     [response |-> "Finish: END",
      extracted |-> "Finish: END",
      returns |-> [ok |-> TRUE, val |-> [next |-> "END", reason |-> "Parsed from text"]]],
     [response |-> "Check the WEATHER and then END",
      extracted |-> "Check the WEATHER and then END",
      returns |-> [ok |-> TRUE, val |-> [next |-> "END", reason |-> "Parsed from text"]]],
     [response |-> "WEATHER first",
      extracted |-> "WEATHER first",
      returns |-> [ok |-> TRUE, val |-> [next |-> "WEATHER", reason |-> "Parsed from text"]]],
     [response |-> "weather then decision",
      extracted |-> "weather then decision",
      returns |-> [ok |-> TRUE, val |-> [next |-> "WEATHER", reason |-> "Parsed from text"]]],
     [response |-> "a decision is needed",
      extracted |-> "a decision is needed",
      returns |-> [ok |-> TRUE, val |-> [next |-> "DECISION", reason |-> "Parsed from text"]]],
     [response |-> "no idea",
      extracted |-> "no idea",
      returns |-> [ok |-> TRUE, val |-> [next |-> "DATA", reason |-> "Default fallback"]]],
     [response |-> "",
      extracted |-> "",
      returns |-> [ok |-> TRUE, val |-> [next |-> "DATA", reason |-> "Default fallback"]]],
     [response |-> "WEEKEND sale",
      extracted |-> "WEEKEND sale",
      returns |-> [ok |-> TRUE, val |-> [next |-> "END", reason |-> "Parsed from text"]]],
     [response |-> "42",
      extracted |-> "42",
      returns |-> [ok |-> FALSE, err |-> "TypeError"]],
     [response |-> "\"END\"",
      extracted |-> "\"END\"",
      returns |-> [ok |-> FALSE, err |-> "TypeError"]],
     [response |-> "\"next\"",
      extracted |-> "\"next\"",
      returns |-> [ok |-> FALSE, err |-> "TypeError"]],
     [response |-> "null",
      extracted |-> "null",
      returns |-> [ok |-> FALSE, err |-> "TypeError"]],
     [response |-> "true",
      extracted |-> "true",
      returns |-> [ok |-> FALSE, err |-> "TypeError"]],
     [response |-> "NaN",
      extracted |-> "NaN",
      returns |-> [ok |-> FALSE, err |-> "TypeError"]],
     [response |-> "[\"END\"]",
      extracted |-> "[\"END\"]",
      returns |-> [ok |-> FALSE, err |-> "TypeError"]],
     [response |-> "{\"next\": 5}",
      extracted |-> "{\"next\": 5}",
      returns |-> [ok |-> FALSE, err |-> "AttributeError"]],
     [response |-> "{\"next\": null, \"reason\": \"none\"}",
      extracted |-> "{\"next\": null, \"reason\": \"none\"}",
      returns |-> [ok |-> FALSE, err |-> "AttributeError"]],
     [response |-> "{\"next\": [\"END\"]}",
      extracted |-> "{\"next\": [\"END\"]}",
      returns |-> [ok |-> FALSE, err |-> "AttributeError"]],
     [response |-> "{\"meta\": {\"x\": 1}, \"next\": \"weather\"}",
      extracted |-> "{\"meta\": {\"x\": 1}",
      returns |-> [ok |-> TRUE, val |-> [next |-> "DATA", reason |-> "Default fallback"]]],
     [response |-> "{\"next\": \"END\", \"meta\": {\"a\": 1}}",
      extracted |-> "{\"next\": \"END\", \"meta\": {\"a\": 1}",
      returns |-> [ok |-> TRUE, val |-> [next |-> "END", reason |-> "Parsed from text"]]],
     [response |-> "Route to WEATHER {not json}",
      extracted |-> "{not json}",
      returns |-> [ok |-> TRUE, val |-> [next |-> "DATA", reason |-> "Default fallback"]]],
     [response |-> "'''json\n42\n'''",
      extracted |-> "42",
      returns |-> [ok |-> FALSE, err |-> "TypeError"]]}

\* json.loads: the value of a text, its type named as Python names it, or
\* JSONDecodeError; the table holds the texts of the model, each value
\* computed by json.loads itself
json_loads(text) == (CHOOSE e \in JSON_LOADS : e.text = text).value

\* the except branch: the first route named in the text, END first
ParsedFromText(text) ==
    LET text_upper == Upper(text)
    IN IF Contains(text_upper, "END") THEN [next |-> "END", reason |-> "Parsed from text"]
       ELSE IF Contains(text_upper, "WEATHER") THEN [next |-> "WEATHER", reason |-> "Parsed from text"]
       ELSE IF Contains(text_upper, "DECISION") THEN [next |-> "DECISION", reason |-> "Parsed from text"]
       ELSE [next |-> "DATA", reason |-> "Default fallback"]

\* the try branch on a parsed dict: the default of a missing next, upper(),
\* the valid routes, the default reason (other keys of the dict are kept by
\* the code and left out here)
ValidatedRoute(fields) ==
    LET next == Get(fields, "next", [type |-> "str", str |-> "DATA"])
        reason == Get(fields, "reason", [type |-> "str", str |-> "No reason provided"])
    IN IF next.type # "str" THEN Raise("AttributeError")
       ELSE Ok([next |-> IF Upper(next.str) \in VALID_ROUTES THEN Upper(next.str) ELSE "DATA",
                reason |-> reason.str])

\* the try branch: `"next" not in result`, then an item assignment or an item
\* read with a str key, raise TypeError on every value that is not a dict
Validated(text, value) ==
    IF value.type = "JSONDecodeError" THEN Ok(ParsedFromText(text))
    ELSE IF value.type = "dict" THEN ValidatedRoute(value.fields)
    ELSE Raise("TypeError")

parse_routing_response(response) == Validated(ExtractJson(response), json_loads(ExtractJson(response)))

MaxParses == 2

ParseInit ==
    /\ env \in ENVS
    /\ state = EmptyDict
    /\ node = "direct"
    /\ steps = 0
    /\ checkpoint = EmptyDict
    /\ _TICKETS = <<>>
    /\ result = EmptyDict
    /\ run = EmptyDict
    /\ trace = <<>>
    /\ runs = 0
    /\ returned = <<>>

\* one call of the parser on a response text; returned keeps the outcomes of
\* the calls so far
ParseRoutingResponse ==
    /\ node = "direct"
    /\ steps < MaxParses
    /\ \E r \in RESPONSES :
          /\ run' = [response |-> r.response]
          /\ result' = parse_routing_response(r.response)
    /\ returned' = Append(returned, IF result'.ok THEN result'.val.next ELSE result'.err)
    /\ trace' = Append(trace, "parse_routing_response")
    /\ steps' = steps + 1
    /\ UNCHANGED <<env, state, node, checkpoint, _TICKETS, runs>>

ParseSpec == ParseInit /\ [][ParseRoutingResponse]_vars

\* a step of a run in progress, told by the position alone: a node returned
\* (one more step taken) or the run went back to the caller
Advance ==
    /\ node \in NODES
    /\ node' \in NODES \cup {"idle"}
    /\ steps' \in {steps, steps + 1}
    /\ (steps' = steps + 1 \/ node' = "idle")

\* graph.invoke is a loop that executes the node that is due until the run
\* returns: a run in progress takes its next step (Step is enabled in every
\* state with a node due, and every Step is an Advance step)
FairSpec == Spec /\ WF_<<node, steps>>(Advance)

(***************************************************************************)
(* The claims.                                                             *)
(***************************************************************************)

Last(seq) == seq[Len(seq)]

\* the listed edges, END being the finish node of the graph
EDGES == {<<"start", "data">>, <<"start", "weather">>, <<"start", "decision">>,
          <<"data", "weather">>, <<"data", "decision">>, <<"data", "end">>,
          <<"weather", "decision">>, <<"weather", "end">>,
          <<"decision", "end">>}

\* C1: in every run of the compiled graph, a step from one node to another
\* follows one of the listed edges (START to DATA, WEATHER or DECISION; DATA
\* to WEATHER, DECISION or END; WEATHER to DECISION or END; DECISION to END);
\* in particular the Decision stage is followed by END only, whatever next holds.
C1_ListedEdges ==
    [][(node \in NODES /\ node' \in NODES) => <<node, node'>> \in EDGES]_vars

\* a run went START, WEATHER, DECISION, END
C1_Witness ==
    /\ node = "idle"
    /\ trace = <<"start", "weather", "decision", "end">>
    /\ result = state

NoStageTwice == \A i, j \in 1..Len(trace) : i # j => trace[i] # trace[j]

\* run_query returned: the final record after END, or an error result
RunReturned ==
    /\ node = "idle"
    /\ trace # <<>>
    /\ \/ result = state /\ Last(trace) = "end"
       \/ DOMAIN result = {"error", "query"}

\* C2: every run started by run_query terminates, whatever the request and
\* whatever the outcome of each stage: a run in progress eventually returns
\* the record that reached END or an error result, and no node is executed
\* twice in a run (no stage is re-entered or retried).
C2_Terminates == []NoStageTwice /\ ((node \in NODES) ~> RunReturned)

\* a run ended at END after two stages, one of which failed
C2_Witness ==
    /\ RunReturned
    /\ Len(trace) = 4
    /\ Last(trace) = "end"
    /\ state.error # None

\* a step of a run that leaves the graph: graph.invoke returned or raised
LeavesGraph == node \in NODES /\ node' \notin NODES

StepLimitText == "Recursion limit of "

\* C5: run_query never propagates an exception: a run leaves the graph only
\* by returning to the caller; when the finish node completed, the result is
\* the final record, and when an exception left a node (also one raised
\* outside the stage's try block) or the step limit RECURSION_LIMIT was
\* exceeded, the result is {error, query} with error set.  The step-limit
\* result carries the step-limit message, which no other result carries.
C5_NeverPropagates ==
    [][LeavesGraph =>
          /\ node' = "idle"
          /\ IF node = "end" /\ steps < env.RECURSION_LIMIT
             THEN /\ result' = state'
                  /\ "messages" \in DOMAIN result'
                  /\ ~StartsWith(result'.error, StepLimitText)
             ELSE /\ DOMAIN result' = {"error", "query"}
                  /\ result'.error # None /\ result'.error # ""
                  /\ result'.query = run.query
                  /\ (steps >= env.RECURSION_LIMIT) <=> StartsWith(result'.error, StepLimitText)
      ]_vars

\* a run was stopped by the step limit after the Decision stage had executed
C5_Witness ==
    /\ node = "idle"
    /\ DOMAIN result = {"error", "query"}
    /\ result.error = GraphRecursionError(env.RECURSION_LIMIT)
    /\ Last(trace) = "decision"

\* a step in which a stage caught an exception in its try block
DataFailedStep ==
    node = "data" /\ steps' = steps + 1 /\ "error" \in DOMAIN state'.inventory_context
WeatherFailedStep ==
    node = "weather" /\ steps' = steps + 1 /\ "error" \in DOMAIN state'.weather_context
DecisionFailedStep ==
    node = "decision" /\ steps' = steps + 1 /\ "error" \in DOMAIN state'.recommendations

\* the step stored the error and appended the stage's error text to the history
ErrorRecorded(tag) ==
    /\ state'.error # None
    /\ StartsWith(state'.error, "Error: ")
    /\ state'.messages = Append(state.messages, AIMessage(tag \o " " \o state'.error))

\* the stages executed after the first execution of stage n in the run
RECURSIVE After(_, _)
After(seq, n) ==
    IF seq = <<>> THEN <<>>
    ELSE IF seq[1] = n THEN SelectSeq(Tail(seq), LAMBDA m : m # "end")
    ELSE After(Tail(seq), n)

\* C4 (as amended): when the Data stage or the Decision stage fails inside
\* its try block, the error message is stored in error, the stage's error
\* text is appended to the history, next is set to END, the router goes to
\* END and no further stage executes in that run; when the Weather stage
\* fails, the error is stored and the error text appended in the same way,
\* but next is set to DECISION and the router goes to the Decision stage.
C4_FailureSemantics ==
    /\ [][/\ DataFailedStep =>
                ErrorRecorded("[Data Agent]") /\ state'.next = "END" /\ node' = "end"
          /\ DecisionFailedStep =>
                ErrorRecorded("[Decision Agent]") /\ state'.next = "END" /\ node' = "end"
          /\ WeatherFailedStep =>
                ErrorRecorded("[Weather Agent]") /\ state'.next = "DECISION"
                /\ node' = "decision"]_vars
    /\ []("error" \in DOMAIN Get(state, "inventory_context", EmptyDict)
             => After(trace, "data") = <<>>)
    /\ []("error" \in DOMAIN Get(state, "recommendations", EmptyDict)
             => After(trace, "decision") = <<>>)

\* a run in which the Data stage failed went on to END and returned
C4_Witness ==
    /\ node = "idle"
    /\ trace = <<"start", "data", "end">>
    /\ "error" \in DOMAIN state.inventory_context
    /\ result = state
    /\ state.error # None
    /\ state.next = "END"

\* C4 as stated: whenever any stage (Data, Weather or Decision) fails, the
\* error is stored, the error text is appended, next is forced to END and
\* no further stage executes.
C4_AsStated ==
    [][(DataFailedStep \/ WeatherFailedStep \/ DecisionFailedStep) =>
          /\ state'.error # None
          /\ Len(state'.messages) = Len(state.messages) + 1
          /\ state'.next = "END"
          /\ node' = "end"]_vars

\* the Weather stage failed in the run in progress or just returned
WeatherFailed == "error" \in DOMAIN Get(state, "weather_context", EmptyDict)

\* the run was stopped by the step limit (checked before a node executes)
StoppedByStepLimit ==
    /\ node = "idle"
    /\ DOMAIN result = {"error", "query"}
    /\ StartsWith(result.error, StepLimitText)

\* C8: when the Weather stage fails inside its try block it sets error and
\* suggests DECISION (not END), and the router goes to the Decision stage,
\* whether or not the request contains a recommendation keyword: in every
\* run that returned after a failed Weather stage, the Decision stage was
\* executed right after it (unless the step limit stopped the run at that
\* point, which needs RECURSION_LIMIT below 3).
C8_WeatherFailureToDecision ==
    /\ [][WeatherFailedStep =>
             /\ state'.error # None
             /\ state'.next = "DECISION"
             /\ node' = "decision"]_vars
    /\ []((node = "idle" /\ WeatherFailed /\ "weather" = Last(trace)) => StoppedByStepLimit)
    /\ []((WeatherFailed /\ After(trace, "weather") # <<>>)
             => After(trace, "weather") = <<"decision">>)
    /\ []((node = "idle" /\ WeatherFailed /\ ~StoppedByStepLimit)
             => trace = <<"start", "weather", "decision", "end">>)

\* a request without a recommendation keyword: the Weather stage failed and
\* the Decision stage ran before the run ended
C8_Witness ==
    /\ node = "idle"
    /\ runs > 0
    /\ run.query = "How will weather affect umbrella sales in Mumbai?"
    /\ WeatherFailed
    /\ state.error # None
    /\ trace = <<"start", "weather", "decision", "end">>
    /\ "analysis" \in DOMAIN state.recommendations

\* the request passed to the run in progress (or to the run that last returned)
RequestText == Lower(run.query)

\* C3: for every request text, the entry stage (the stage executed after
\* START) is WEATHER if the lowercased text contains one of the weather
\* keywords weather, forecast, rain, monsoon, temperature, climate, hot, cold,
\* whether or not it contains a decision keyword, and DATA otherwise.
C3_EntryClassification ==
    Len(trace) >= 2 =>
        trace[2] = IF ContainsAny(RequestText, <<"weather", "forecast", "rain", "monsoon",
                                                 "temperature", "climate", "hot", "cold">>)
                   THEN "weather" ELSE "data"

\* the Data stage has just completed without error in the run in progress
DataCompleted ==
    /\ node \in NODES
    /\ trace # <<>>
    /\ Last(trace) = "data"
    /\ "analysis" \in DOMAIN state.inventory_context

\* C6: when the Data stage completes without error it suggests WEATHER if
\* the request asks about weather and weather items were found, otherwise
\* DECISION if the request asks for recommendations and low stock exists,
\* otherwise END.
C6_DataRouting ==
    DataCompleted =>
        state.next =
            IF ContainsAny(RequestText, <<"weather", "forecast", "rain">>)
               /\ state.inventory_context.has_weather_items
            THEN "WEATHER"
            ELSE IF ContainsAny(RequestText, <<"recommend", "reorder", "order", "action">>)
                    /\ state.inventory_context.has_low_stock
                 THEN "DECISION"
            ELSE "END"

\* the Weather stage has just completed without error in the run in progress
WeatherCompleted ==
    /\ node \in NODES
    /\ trace # <<>>
    /\ Last(trace) = "weather"
    /\ "analysis" \in DOMAIN state.weather_context

RequestAsksAction ==
    ContainsAny(RequestText, <<"recommend", "reorder", "order", "action", "what should">>)

\* C7: on success the Weather stage suggests DECISION if the request
\* contains a recommendation or action keyword and END otherwise; so a run
\* for a request with a weather keyword and no such keyword, whose Weather
\* stage succeeded, executes only the Weather stage: the Decision stage does
\* not run and tickets of the final record is empty.
C7_WeatherRouting ==
    /\ WeatherCompleted =>
          state.next = IF RequestAsksAction THEN "DECISION" ELSE "END"
    /\ (/\ node = "idle"
        /\ runs > 0
        /\ result = state
        /\ ContainsAny(RequestText, WEATHER_KEYWORDS)
        /\ ~RequestAsksAction
        /\ ~ContainsAny(RequestText, DECISION_KEYWORDS)
        /\ ~WeatherFailed)
       => (trace = <<"start", "weather", "end">> /\ state.tickets = <<>>)

\* the queries the Data stage issues fail in this database
LookupFails ==
    LET df == run_query(env.db, LOW_STOCK_SQL, <<>>)
    IN df.ok /\ df.val.columns = {"error"}

\* C9: whenever a query issued by the Data stage fails, the record of the
\* run has error set, the Data stage's text is an error-tagged blob, the
\* Data stage suggests END and no Decision stage runs in that run.
C9_LookupFailure ==
    /\ (LookupFails /\ node \in NODES /\ trace # <<>> /\ Last(trace) = "data")
          => (/\ state.error # None
              /\ StartsWith(Last(state.messages).content, "[Data Agent] Error")
              /\ state.next = "END")
    /\ (LookupFails /\ runs > 0) => ~(\E i \in 1..Len(trace) : trace[i] = "decision")

\* C10: the record is fresh for every request, also for a later run_query
\* call with the same thread_id on a graph built with memory: the history of
\* the run holds this run's request and the outputs of its stages only, and
\* the request text the stages read is the text passed to this run.
C10_FreshRecord ==
    (runs > 0 /\ state # EmptyDict) =>
        /\ state.messages[1] = HumanMessage(run.query)
        /\ Len(SelectSeq(state.messages, LAMBDA m : m.type = "human")) = 1
        /\ Len(state.messages) <= 1 + Len(trace)
        /\ get_user_query(state) = run.query


\* the record of the run in progress was created by this run alone: the graph
\* has no checkpointer, or no earlier run was saved
FreshRecord == ~env.use_memory \/ runs <= 1

\* on a fresh record start_node, the Data stage and the Weather stage decide
\* as C3, C6 and C7 state: the three statements fail on a saved thread only
EntryClassificationOnFreshRecord == FreshRecord => C3_EntryClassification
DataRoutingOnFreshRecord == FreshRecord => C6_DataRouting
WeatherRoutingOnFreshRecord == FreshRecord => C7_WeatherRouting

\* a failing lookup lets the Decision stage run
LookupFailureReachesDecision ==
    /\ LookupFails
    /\ node = "idle"
    /\ trace = <<"start", "data", "decision", "end">>
    /\ state.error = None


\* run_query returned the final record of a completed run
RunCompleted ==
    /\ node = "idle"
    /\ runs > 0
    /\ result = state
    /\ "messages" \in DOMAIN result

\* C11: for all requests and all sequences of runs, the length of the
\* history (messages) of the record a run returns is at most the configured
\* step bound RECURSION_LIMIT.
C11_HistoryBound == RunCompleted => Len(result.messages) <= env.RECURSION_LIMIT

\* in the first run on a thread, and in every run of a graph without memory,
\* the history holds the request and one text per stage executed
HistoryBoundOnFreshRecord ==
    (RunCompleted /\ FreshRecord) =>
        /\ Len(result.messages) = Len(trace) - 1
        /\ Len(result.messages) < env.RECURSION_LIMIT


\* a step in which the Decision stage was invoked, in a run or directly
DecisionStep == node \in {"decision", "direct"} /\ trace' = Append(trace, "decision")

\* that invocation ended in the stage's except clause
DecisionRaised == "error" \in DOMAIN state'.recommendations

\* the tickets the step appended to the Ticket Log
Appended == SubSeq(_TICKETS', Len(_TICKETS) + 1, Len(_TICKETS'))

ReordersOf(tickets) == SelectSeq(tickets, LAMBDA t : t.type = "REORDER")
AlertsOf(tickets) == SelectSeq(tickets, LAMBDA t : t.type = "ALERT")

\* identifier and description of each reorder ticket, in order
IdAndName(tickets) ==
    [i \in 1..Len(tickets) |-> <<tickets[i].data.sku_id, tickets[i].data.sku_name>>]

\* the reorder tickets written out for the analysis text of the record
ExpectedReorders(record) ==
    (CHOOSE a \in ANALYSES : a.analysis = record.inventory_context.analysis).reorders

IsPrefix(s, t) == Len(s) <= Len(t) /\ s = SubSeq(t, 1, Len(s))

\* C12: the Decision stage creates reorder tickets only when has_low_stock
\* is true, one per "CODE_NUMBER: description" match of the Data blob, for
\* at most the first 5 matches in text order, with the identifier and the
\* description (its first 50 characters, stripped) taken from the match; an
\* invocation that fails has created the tickets of the matches before the
\* failure.
C12_ReorderTickets ==
    [][DecisionStep =>
         /\ Len(ReordersOf(Appended)) <= 5
         /\ ~state.inventory_context.has_low_stock => ReordersOf(Appended) = <<>>
         /\ (state.inventory_context.has_low_stock /\ ~DecisionRaised) =>
               IdAndName(ReordersOf(Appended)) = ExpectedReorders(state)
         /\ (state.inventory_context.has_low_stock /\ DecisionRaised) =>
               IsPrefix(IdAndName(ReordersOf(Appended)), ExpectedReorders(state))]_vars

\* the stage was invoked on a blob with seven matches and created the
\* reorder tickets of the first five
C12_Witness ==
    /\ trace = <<"decision">>
    /\ "analysis" \in DOMAIN state.recommendations
    /\ Len(FindSkus(state.inventory_context.analysis, 1)) = 7
    /\ IdAndName(ReordersOf(_TICKETS)) =
          << <<"A_1", "a">>, <<"B_2", "b">>, <<"C_3", "c">>, <<"D_4", "d">>, <<"E_5", "e">> >>


\* the analysis text of the record names a weather-sensitive category
NamesCategory(record) ==
    (CHOOSE a \in ANALYSES : a.analysis = record.inventory_context.analysis).names_category

\* the priority the reorder tickets of an invocation on the record carry
ExpectedPriority(record) ==
    IF record.weather_context.high_impact /\ NamesCategory(record) THEN "high" ELSE "medium"

\* C13: every reorder ticket the Decision stage creates has priority high
\* (kept in upper case by the ticket tool) if and only if high_impact is true
\* and the Data blob contains one of umbrella, raincoat, summer, winter in
\* any case, and priority medium otherwise; all reorder tickets of one
\* invocation carry the same priority.
C13_ReorderPriority ==
    [][DecisionStep =>
         \A i \in 1..Len(ReordersOf(Appended)) :
            /\ Lower(ReordersOf(Appended)[i].priority) = ExpectedPriority(state)
            /\ ReordersOf(Appended)[i].priority = ReordersOf(Appended)[1].priority]_vars

\* high impact and a blob that names a category in upper case only: both
\* reorder tickets are of high priority
C13_Witness ==
    /\ trace = <<"decision">>
    /\ state.weather_context.high_impact
    /\ ~Contains(state.inventory_context.analysis, "umbrella")
    /\ Contains(state.inventory_context.analysis, "UMBRELLA")
    /\ Len(ReordersOf(_TICKETS)) = 2
    /\ \A i \in 1..2 : ReordersOf(_TICKETS)[i].priority = "HIGH"


\* the severities of the alerts of an invocation on the record, in order
ExpectedAlerts(record) ==
    (IF record.weather_context.high_impact /\ record.weather_context.has_rain
     THEN <<"WARNING">> ELSE <<>>)
    \o (IF record.weather_context.high_impact /\ record.weather_context.has_heat
        THEN <<"INFO">> ELSE <<>>)

Severities(tickets) == [i \in 1..Len(tickets) |-> tickets[i].severity]

\* C14: the Decision stage creates alert tickets only when high_impact is
\* true: a warning-severity alert iff has_rain and an info-severity alert iff
\* has_heat, none when high_impact is false; the alerts are appended after
\* all reorder tickets, the rain alert before the heat alert.
C14_Alerts ==
    [][DecisionStep =>
         /\ Appended = ReordersOf(Appended) \o AlertsOf(Appended)
         /\ ~state.weather_context.high_impact => AlertsOf(Appended) = <<>>
         /\ ~DecisionRaised => Severities(AlertsOf(Appended)) = ExpectedAlerts(state)
         /\ DecisionRaised => IsPrefix(Severities(AlertsOf(Appended)), ExpectedAlerts(state))
         /\ \A i \in 1..Len(AlertsOf(Appended)) :
               AlertsOf(Appended)[i].data.category =
                  (IF AlertsOf(Appended)[i].severity = "WARNING" THEN "Umbrellas, Raincoats"
                   ELSE "Summer Wear")]_vars

\* high impact with rain and heat on a blob with low stock: the reorder
\* tickets, then the rain alert, then the heat alert
C14_Witness ==
    /\ trace = <<"decision">>
    /\ state.weather_context.high_impact
    /\ state.weather_context.has_rain
    /\ state.weather_context.has_heat
    /\ Len(_TICKETS) = 7
    /\ Len(ReordersOf(_TICKETS)) = 5
    /\ _TICKETS[6].type = "ALERT" /\ _TICKETS[6].severity = "WARNING"
    /\ _TICKETS[7].type = "ALERT" /\ _TICKETS[7].severity = "INFO"


\* the record's tickets are the confirmation texts of the tickets the step
\* appended to the Ticket Log, in creation order
TicketsRecorded ==
    /\ Len(state'.tickets) = Len(Appended)
    /\ \A i \in 1..Len(Appended) : Contains(state'.tickets[i], Appended[i].ticket_id)

\* C15: after any run, the length of the final record's tickets equals the
\* number of tickets that run appended to the Ticket Log (the Decision stage
\* being the only stage that creates tickets), in creation order, also when
\* the Decision stage fails after having created some tickets.
C15_TicketsMatchLog == [][DecisionStep => TicketsRecorded]_vars

\* an invocation of the Decision stage that did not fail records its tickets
TicketsRecordedWhenCompleted == [][(DecisionStep /\ ~DecisionRaised) => TicketsRecorded]_vars

\* the Decision stage failed after having created a ticket: the Ticket Log
\* holds it, the record's tickets do not
TicketsLostOnFailure ==
    /\ node = "idle"
    /\ result = state
    /\ trace # <<>>
    /\ "decision" \in {trace[i] : i \in 1..Len(trace)}
    /\ "error" \in DOMAIN state.recommendations
    /\ state.tickets = <<>>
    /\ _TICKETS # <<>>


\* C16: ticket identifiers are unique: after any sequence of
\* create_reorder_ticket and create_alert_ticket calls, no two tickets of the
\* Ticket Log have the same ticket_id.
C16_UniqueTicketIds ==
    \A i, j \in 1..Len(_TICKETS) : i # j => _TICKETS[i].ticket_id # _TICKETS[j].ticket_id

\* a reorder ticket and an alert never share an identifier: the prefixes
\* TKT- and ALT- differ
KindsHaveDistinctIds ==
    \A i, j \in 1..Len(_TICKETS) :
       _TICKETS[i].type # _TICKETS[j].type => _TICKETS[i].ticket_id # _TICKETS[j].ticket_id


\* the functions called so far, clear_tickets not among them
NeverCleared(calls) == \A i \in 1..Len(calls) : calls[i] # "clear_tickets"

\* a step in which one of the two ticket tools was called directly
CreateStep ==
    \/ trace' = Append(trace, "create_reorder_ticket")
    \/ trace' = Append(trace, "create_alert_ticket")

KindAndStatus(ticket) ==
    \/ ticket.type = "REORDER" /\ ticket.status = "PENDING"
    \/ ticket.type = "ALERT" /\ ticket.status = "OPEN"

\* the text of get_pending_tickets counts every ticket of the log and
\* names each of them
ReportsAll(tickets) ==
    /\ Pending(tickets) = tickets
    /\ tickets # <<>> =>
          StartsWith(get_pending_tickets(tickets),
                     "PENDING TICKETS (" \o Str(Len(tickets)) \o " total)")
    /\ \A i \in 1..Len(tickets) : Contains(get_pending_tickets(tickets), tickets[i].ticket_id)

\* C17: over any sequence of Decision invocations and ticket creations (no
\* clear_tickets call in it) the Ticket Log is append-only: each create call
\* adds exactly one ticket at the end, the log never shrinks, every ticket
\* already in the log keeps its position, kind and status (PENDING for
\* reorders, OPEN for alerts), and get_pending_tickets reports every ticket
\* ever created.
C17_AppendOnly ==
    [][NeverCleared(trace') =>
         /\ IsPrefix(_TICKETS, _TICKETS')
         /\ CreateStep => Len(_TICKETS') = Len(_TICKETS) + 1
         /\ \A i \in 1..Len(_TICKETS') : KindAndStatus(_TICKETS'[i])
         /\ ReportsAll(_TICKETS')]_vars

\* the Decision stage created a reorder ticket and an alert, a direct call
\* added a reorder ticket, and get_pending_tickets was called on the three
C17_Witness ==
    /\ trace = <<"decision", "create_reorder_ticket", "get_pending_tickets">>
    /\ Len(_TICKETS) = 3
    /\ _TICKETS[2].type = "ALERT"
    /\ _TICKETS[3].priority = "URGENT"
    /\ StartsWith(Last(returned), "PENDING TICKETS (3 total)")

\* clear_tickets, the helper kept for tests, is the one operation that
\* empties the log
LogCleared ==
    /\ trace # <<>>
    /\ Last(trace) = "clear_tickets"
    /\ Len(trace) > 1
    /\ _TICKETS = <<>>


\* over the runs of the compiled graph the log only grows and every ticket
\* keeps its kind and status
LogGrowsAcrossRuns ==
    [][/\ IsPrefix(_TICKETS, _TICKETS')
       /\ \A i \in 1..Len(_TICKETS') : KindAndStatus(_TICKETS'[i])]_vars


\* the region the claim resolves for a record's region and a request text
ResolvedRegion(region, request) ==
    IF region # "" THEN region
    ELSE IF Contains(Lower(request), "mumbai") THEN "mumbai"
    ELSE IF Contains(Lower(request), "delhi") THEN "delhi"
    ELSE IF Contains(Lower(request), "bengaluru") THEN "bengaluru"
    ELSE IF Contains(Lower(request), "bangalore") THEN "bengaluru"
    ELSE IF Contains(Lower(request), "chennai") THEN "chennai"
    ELSE IF Contains(Lower(request), "kolkata") THEN "kolkata"
    ELSE IF Contains(Lower(request), "hyderabad") THEN "hyderabad"
    ELSE "mumbai"

\* a step in which the Weather stage was invoked and did not fail
WeatherSucceededStep ==
    /\ node \in {"weather", "direct"}
    /\ trace' = Append(trace, "weather")
    /\ "error" \notin DOMAIN state'.weather_context

\* a step of a later stage of the run, after its Weather stage
StepAfterWeather ==
    /\ runs' = runs
    /\ trace' # Append(trace, "weather")
    /\ \E i \in 1..Len(trace) : trace[i] = "weather"

RegionResolved ==
    /\ WeatherSucceededStep =>
          /\ state'.region = ResolvedRegion(state.region, run.query)
          /\ state'.weather_context.region = state'.region
    /\ StepAfterWeather => state'.region = state.region

\* C18: the Weather stage uses the record's region if it is set, even when
\* the request names a different city; otherwise the first city of the list
\* mumbai, delhi, bengaluru, bangalore, chennai, kolkata, hyderabad that the
\* request contains, bangalore read as bengaluru; otherwise mumbai.  After a
\* successful Weather stage the record's region is the resolved region, and
\* no later stage of the run changes it.
C18_RegionResolution == [][RegionResolved]_vars

\* on a fresh record the region is resolved as C18 states
RegionResolutionOnFreshRecord == [][FreshRecord' => RegionResolved]_vars

\* the second run on a saved thread asks about Delhi and is answered for the
\* city of the first request
RegionOfEarlierRequest ==
    /\ node = "idle"
    /\ runs = 2
    /\ result = state
    /\ run.region = ""
    /\ Contains(Lower(run.query), "delhi")
    /\ \E i \in 1..Len(trace) : trace[i] = "weather"
    /\ state.region = "mumbai"


\* the texts the stages appended to the history of the record, in order
StageTexts(record) ==
    LET texts == SelectSeq(record.messages, LAMBDA m : m.type = "ai")
    IN [i \in 1..Len(texts) |-> texts[i].content]

\* the Decision stage's summary under its heading, if the record has one
SummarySection(record) ==
    IF "analysis" \in DOMAIN record.recommendations
    THEN <<"\n## Recommendations\n" \o record.recommendations.analysis>>
    ELSE <<>>

Sections(parts) == Join("\n\n---\n\n", parts)

\* C19: the compiled response consists of exactly the texts produced by the
\* stages that ran, one section per stage in invocation order, followed by
\* the Decision stage's summary if present, and of nothing else; for a run
\* in which only the Data stage ran it is the Data section alone.
C19_CompiledResponse ==
    \A i \in 1..Len(returned) :
       /\ returned[i] = Sections(StageTexts(result) \o SummarySection(result))
       /\ trace = <<"start", "data", "end">> /\ FreshRecord =>
             returned[i] = Last(result.messages).content

\* on a fresh record the compiled response is the text of the request, then
\* the stage texts, then the summary
ResponseStartsWithRequest ==
    FreshRecord =>
       \A i \in 1..Len(returned) :
          returned[i] = Sections(<<run.query>> \o StageTexts(result) \o SummarySection(result))

\* only the Data stage ran and the compiled response is the request, the
\* separator and the Data section
RequestInDataResponse ==
    /\ node = "idle"
    /\ trace = <<"start", "data", "end">>
    /\ FreshRecord
    /\ returned # <<>>
    /\ returned[1] = run.query \o "\n\n---\n\n" \o Last(result.messages).content
    /\ StartsWith(Last(result.messages).content, "[Data Agent]")


\* a step in which get_final_response was called on the result of the run
CompileStep == node = "idle" /\ returned' # returned /\ returned' # <<>>

READ_QUERIES == {LOW_STOCK_SQL, WEATHER_SENSITIVE_SQL, COUNT_SQL}

\* a step in which db.run_query was called directly
QueryStep == node = "direct" /\ trace' = Append(trace, "run_query")

\* the call raised the ValueError of the check
Rejected(res) == ~res.ok /\ res.err = "Only SELECT or WITH queries are allowed for safety"

\* C21: for every query string passed to run_query of the database layer,
\* either the query is a pure read, or it is rejected with an error before
\* execution and the store's contents are unchanged.
C21_OnlyReads ==
    [][QueryStep =>
         \/ run'.query \in READ_QUERIES
         \/ Rejected(result') /\ env'.db = env.db]_vars

\* a statement that starts with neither SELECT nor WITH is rejected, and
\* only the DELETE behind a WITH clause changes the store
RejectedUnlessSelectOrWith ==
    [][QueryStep =>
         /\ ~SelectOnly(Upper(Strip(run'.query))) => Rejected(result') /\ env'.db = env.db
         /\ env'.db # env.db => run'.query = WITH_DELETE_SQL]_vars

\* the low-stock rows are gone after a statement that run_query let through
RowsDeletedThroughRunQuery ==
    /\ trace # <<>>
    /\ Last(trace) = "run_query"
    /\ run.query = WITH_DELETE_SQL
    /\ result.ok /\ result.val.columns = {"error"}
    /\ env.db.mode = "ok"
    /\ Len(env.db.inventory) = 1


\* the tickets of the log that run r appended, in the order of the log
LogOf(r) ==
    LET places == SelectSeq([i \in 1..Len(trace) |-> i], LAMBDA i : trace[i] = r)
    IN [k \in 1..Len(places) |-> _TICKETS[places[k]]]

\* the tickets run r created, in creation order
CreatedBy(r) == [k \in 1..steps[r] |-> InvocationsIn(r)[k].ticket]

BothReturned == \A r \in RUNS : node[r] = "end"

\* the log holds the tickets of both runs, each once and in each run's
\* creation order
NothingLost ==
    /\ Len(_TICKETS) = steps[1] + steps[2]
    /\ \A r \in RUNS : LogOf(r) = CreatedBy(r)

\* the record of run r holds the confirmation texts of the tickets it created
RecordHoldsOwn(r) ==
    /\ Len(state[r].tickets) = steps[r]
    /\ \A k \in 1..steps[r] : Contains(state[r].tickets[k], CreatedBy(r)[k].ticket_id)
    /\ state[r].tickets = result[r]

ConcurrentLogComplete ==
    /\ NothingLost
    /\ \A r \in RUNS :
          (node[r] = "end" /\ "analysis" \in DOMAIN state[r].recommendations) =>
             RecordHoldsOwn(r)

\* the tickets of the two runs alternate in the log, and one run failed
\* after its first ticket
InterleavedAndFailed ==
    /\ BothReturned
    /\ Len(trace) >= 3
    /\ trace[1] = 1 /\ trace[2] = 2 /\ trace[3] = 1
    /\ "error" \in DOMAIN state[2].recommendations
    /\ state[2].tickets = <<>>


\* a step of the run in progress changed the value of key
Written(key) == runs' = runs /\ node \in NODES /\ state'[key] # state[key]

\* the stage named n is in the trace at most once
AtMostOnce(calls, n) == \A i, j \in 1..Len(calls) : (calls[i] = n /\ calls[j] = n) => i = j

\* C23: each context is written at most once per run and only by its owning
\* stage: inventory_context only by the Data stage, weather_context only by
\* the Weather stage, recommendations and tickets only by the Decision
\* stage; every stage leaves the other stages' contexts unchanged, and each
\* of the three stages executes at most once per run.
C23_ContextOwners ==
    [][/\ Written("inventory_context") => node = "data"
       /\ Written("weather_context") => node = "weather"
       /\ Written("recommendations") => node = "decision"
       /\ Written("tickets") => node = "decision"
       /\ \A n \in {"data", "weather", "decision"} : AtMostOnce(trace', n)]_vars

\* a run in which the Weather stage and then the Decision stage each wrote
\* their own context, the inventory context being as the run started
C23_Witness ==
    /\ node = "idle"
    /\ result = state
    /\ trace = <<"start", "weather", "decision", "end">>
    /\ "analysis" \in DOMAIN state.weather_context
    /\ "analysis" \in DOMAIN state.recommendations
    /\ state.tickets # <<>>
    /\ state.inventory_context = EmptyDict


\* the record's error is set: neither None nor empty
ErrorSet(record) == ~Falsy(record.error)

\* C24: within a run, once error has been set by a failing stage it is never
\* cleared: every later state of the run still has error non-empty, also
\* after a subsequent stage succeeds, and so has the final record.
C24_ErrorKept ==
    [][(runs' = runs /\ node \in NODES /\ ErrorSet(state)) =>
          /\ ErrorSet(state')
          /\ node' = "idle" /\ "messages" \in DOMAIN result' => ErrorSet(result')]_vars

\* the Weather stage failed, the Decision stage then succeeded, and the
\* final record still carries the Weather stage's error
C24_Witness ==
    /\ node = "idle"
    /\ result = state
    /\ trace = <<"start", "weather", "decision", "end">>
    /\ "error" \in DOMAIN state.weather_context
    /\ "analysis" \in DOMAIN state.recommendations
    /\ state.error = state.weather_context.error
    /\ StartsWith(state.error, "Error: ")


Returned == result.ok /\ result.val.next \in VALID_ROUTES

Parsed == trace # <<>> /\ Last(trace) = "parse_routing_response"

\* C25: every call of parse_routing_response returns, and returns a next
\* among DATA, WEATHER, DECISION and END
C25_ParserTotal == Parsed => Returned

\* the parser of the model returns or raises what the function itself does
\* on every response text
ParserAsObserved ==
    Parsed => \E r \in RESPONSES : /\ r.response = run.response
                                   /\ r.extracted = ExtractJson(r.response)
                                   /\ r.returns = result

\* a call that returns has a next among the four routes
RouteValidWhenReturned == Parsed /\ result.ok => result.val.next \in VALID_ROUTES

\* a JSON number was handed over and the call raised TypeError
ParserRaised == Parsed /\ run.response = "42" /\ ~result.ok /\ result.err = "TypeError"

\* a text that is no JSON and names WEATHER was parsed to DATA
BracesHideRoute ==
    /\ Parsed
    /\ run.response = "Route to WEATHER {not json}"
    /\ result.ok /\ result.val.next = "DATA"



\* the request as start_node and the Data stage read it
EntryQuery(record) == Lower(get_user_query(record))

\* start_node takes the request as one for recommendations: a decision
\* keyword and no weather keyword
EntryNeedsRecommendations(query) ==
    ~ContainsAny(query, WEATHER_KEYWORDS) /\ ContainsAny(query, DECISION_KEYWORDS)

\* C26: every request that the entry classifier treats as a request for
\* recommendations is processed as DATA then DECISION: when no stage fails,
\* the Decision stage runs in that run after the Data stage.
C26_DataThenDecision ==
    (RunCompleted /\ EntryNeedsRecommendations(EntryQuery(result)) /\ ~ErrorSet(result))
        => trace = <<"start", "data", "decision", "end">>

\* the same for the requests that hold one of the keywords the Data stage
\* itself looks for
DataThenDecisionOnDataKeywords ==
    (/\ RunCompleted
     /\ EntryNeedsRecommendations(EntryQuery(result))
     /\ ContainsAny(EntryQuery(result), <<"recommend", "reorder", "order", "action">>)
     /\ ~ErrorSet(result))
        => trace = <<"start", "data", "decision", "end">>

\* a request for a purchase ticket ended after the Data stage
PurchaseEndsAfterData ==
    /\ RunCompleted
    /\ run.query = "Create a purchase ticket for umbrellas"
    /\ EntryQuery(result) = Lower(run.query)
    /\ ~ErrorSet(result)
    /\ trace = <<"start", "data", "end">>



\* the stages executed in the run, in order
StagesOf(calls) == SelectSeq(calls, LAMBDA n : n \in {"data", "weather", "decision"})

STAGE_SEQUENCES ==
    {<<"data">>, <<"data", "decision">>, <<"weather">>, <<"weather", "decision">>}

\* the entry stage is never the Decision stage
EntryNeverDecision == [][node = "start" => node' # "decision"]_vars

\* the Data stage never suggests WEATHER
DataNeverSuggestsWeather ==
    [][(node = "data" /\ steps' = steps + 1) => state'.next # "WEATHER" /\ node' # "weather"]_vars

EndedAtEntry ==
    /\ RunReturned
    /\ trace = <<"start">>
    /\ StagesOf(trace) = <<>>
    /\ DOMAIN result = {"error", "query"}



\* the contexts as a stage that succeeded leaves them: with their flags
InventoryFlags(record) == "has_low_stock" \in DOMAIN record.inventory_context
WeatherFlags(record) == "high_impact" \in DOMAIN record.weather_context

\* the confirmation texts of the two kinds of ticket
IsReorderText(text) == Contains(text, "REORDER TICKET CREATED")
IsAlertText(text) == Contains(text, "ALERT TICKET CREATED")

HoldsBoth(tickets) ==
    /\ \E i \in 1..Len(tickets) : IsReorderText(tickets[i])
    /\ \E i \in 1..Len(tickets) : IsAlertText(tickets[i])

\* C28: in every run started by run_query, when the Decision stage executes
\* at most one of inventory_context and weather_context carries flags from a
\* successful stage; therefore no reorder ticket with priority HIGH is ever
\* created, and the final record's tickets never contain both a reorder
\* ticket and an alert ticket.
C28_OneContext ==
    /\ [](node = "decision" => ~(InventoryFlags(state) /\ WeatherFlags(state)))
    /\ [](\A i \in 1..Len(_TICKETS) : _TICKETS[i].type = "REORDER" => _TICKETS[i].priority # "HIGH")
    /\ [][DecisionStep => (ReordersOf(Appended) = <<>> \/ AlertsOf(Appended) = <<>>)]_vars
    /\ [](RunCompleted => ~HoldsBoth(result.tickets))

\* the second of two runs: the Ticket Log holds the reorder tickets of the
\* first, of priority MEDIUM for a blob that names umbrellas, and the alerts
\* of the second, whose record holds the alerts only
C28_Witness ==
    /\ RunCompleted
    /\ runs = 2
    /\ trace = <<"start", "weather", "decision", "end">>
    /\ WeatherFlags(state) /\ state.weather_context.high_impact
    /\ ~InventoryFlags(state)
    /\ ReordersOf(_TICKETS) # <<>>
    /\ \A i \in 1..Len(ReordersOf(_TICKETS)) : ReordersOf(_TICKETS)[i].priority = "MEDIUM"
    /\ AlertsOf(_TICKETS) # <<>>
    /\ state.tickets # <<>>
    /\ \A i \in 1..Len(state.tickets) : IsAlertText(state.tickets[i])



\* a step in which the Data stage of a run returned from its try block
DataSucceededStep ==
    node = "data" /\ steps' = steps + 1 /\ "analysis" \in DOMAIN state'.inventory_context

DATA_DECISION_KEYWORDS == <<"recommend", "reorder", "order", "action">>

\* after the step has_low_stock is true, and a request with one of the
\* keywords goes on to the Decision stage
LowStockThenDecision(request) ==
    /\ state'.inventory_context.has_low_stock
    /\ Contains(Lower(state'.inventory_context.analysis), "low stock items")
    /\ ContainsAny(request, DATA_DECISION_KEYWORDS) =>
          state'.next = "DECISION" /\ node' = "decision"

\* C29: whenever the Data stage completes without raising, has_low_stock is
\* true for every content of the Lookup Store (also when no item is at or
\* below its reorder point and when the low-stock query itself failed),
\* because the blob always holds the heading Low Stock Items; hence a request
\* that enters at the Data stage and contains recommend, reorder, order or
\* action always proceeds to the Decision stage.
C29_LowStockAlways == [][DataSucceededStep => LowStockThenDecision(RequestText)]_vars

\* has_low_stock is true after every Data stage that returned from its try
\* block, and the request as the stage reads it decides the way on
LowStockAlwaysAsRead == [][DataSucceededStep => LowStockThenDecision(EntryQuery(state))]_vars

\* on a fresh record the request of the run is the request the stage reads
LowStockAlwaysOnFreshRecord ==
    [][(FreshRecord /\ DataSucceededStep) => LowStockThenDecision(RequestText)]_vars

\* no item is at or below its reorder point, or the low-stock query failed,
\* and the run went on to the Decision stage with has_low_stock true
HealthyStoreReachesDecision ==
    /\ RunCompleted
    /\ env.db \in {DB_STOCKED, DB_NOSCHEMA}
    /\ trace = <<"start", "data", "decision", "end">>
    /\ InventoryFlags(state)
    /\ state.inventory_context.has_low_stock
    /\ ~Contains(state.inventory_context.analysis, "[WARNING] Found")

\* the second run on a saved thread asks for reorder recommendations and
\* ends after the Data stage, has_low_stock being true
ReorderRequestEndsAfterData ==
    /\ RunCompleted
    /\ runs = 2
    /\ Contains(RequestText, "reorder")
    /\ ~ContainsAny(RequestText, WEATHER_KEYWORDS)
    /\ trace = <<"start", "data", "end">>
    /\ InventoryFlags(state)
    /\ state.inventory_context.has_low_stock
    /\ ~ErrorSet(state)



\* the Weather stage returned from its try block: both flags are true and
\* the blob holds the fixed texts
RainAndHeatFlagged ==
    /\ state'.weather_context.has_rain
    /\ state'.weather_context.has_heat
    /\ Contains(state'.weather_context.analysis, "Rain Probability")
    /\ Contains(state'.weather_context.analysis, "Raincoats")
    /\ Contains(state'.weather_context.analysis, "Hot Days")

\* a step of the Decision stage on a record whose Weather stage succeeded
DecisionAfterWeatherStep == DecisionStep /\ WeatherFlags(state)

\* no alert when high_impact is false, else the rain alert and the heat
\* alert; an invocation that failed at a tool call has created the alerts
\* before the failing call
ZeroOrTwoAlerts ==
    IF DecisionRaised
    THEN IsPrefix(Severities(AlertsOf(Appended)), <<"WARNING", "INFO">>)
    ELSE Severities(AlertsOf(Appended)) =
            (IF state.weather_context.high_impact THEN <<"WARNING", "INFO">> ELSE <<>>)

\* C30: whenever the Weather stage completes without raising, has_rain and
\* has_heat are both true for every region and forecast, because the blob
\* always holds the texts Rain Probability, Raincoats and Hot Days; hence a
\* Decision stage that follows a successful Weather stage creates either no
\* alert ticket (high_impact false) or exactly two, a warning rain alert and
\* an info heat alert, never exactly one.
C30_RainAndHeat ==
    [][/\ WeatherSucceededStep => RainAndHeatFlagged
       /\ DecisionAfterWeatherStep => ZeroOrTwoAlerts]_vars

\* the Decision stage after a successful Weather stage created the rain
\* alert and the heat alert
C30_Witness ==
    /\ trace # <<>> /\ Last(trace) = "decision"
    /\ WeatherFlags(state)
    /\ "analysis" \in DOMAIN state.recommendations
    /\ state.weather_context.has_rain /\ state.weather_context.has_heat
    /\ state.weather_context.high_impact
    /\ Severities(AlertsOf(_TICKETS)) = <<"WARNING", "INFO">>

\* the forecast of the region has no hot day and has_heat is true; the
\* Decision stage after the Weather stage created no alert
NoAlertAfterWeather ==
    /\ trace # <<>> /\ Last(trace) = "decision"
    /\ WeatherFlags(state)
    /\ "analysis" \in DOMAIN state.recommendations
    /\ Contains(state.weather_context.analysis, "Hot Days: 0/7")
    /\ state.weather_context.has_heat
    /\ ~state.weather_context.high_impact
    /\ _TICKETS = <<>>

====
